---- MODULE Spec2Model ----
(***************************************************************************)
(* A model of optree's PyTreeSpec: the post-order node vector, the         *)
(* constructors Leaf / None / Tuple, Compose, Children, equality, hashing, *)
(* the pickle codec, and flatten / unflatten over a small universe of      *)
(* Python values.                                                          *)
(***************************************************************************)
EXTENDS Integers, Sequences, FiniteSets

VARIABLES registry, a, last

vars == <<registry, a, last>>

(***************************************************************************)
(* Bounds of the model.                                                    *)
(***************************************************************************)
\* The caller keeps a spec only if its traversal has at most this many nodes.
MaxNodes == 3
\* PyTreeSpec::Tuple is called with at most this many children.
MaxTupleArity == 2

(***************************************************************************)
(* Python objects held by a node (py::object).  Every object is a record   *)
(* of one shape: t is the Python type, n an integer payload, s a string    *)
(* payload and ks a list of dict keys.                                     *)
(***************************************************************************)
PyObj(t, n, s, ks) == [t |-> t, n |-> n, s |-> s, ks |-> ks]

\* A py::object whose ptr() is nullptr (no Python object at all).
NullObj == PyObj("nullptr", 0, "", <<>>)

\* py::none()
PyNone == PyObj("NoneType", 0, "", <<>>)

PyInt(i) == PyObj("int", i, "", <<>>)

PyStr(s) == PyObj("str", 0, s, <<>>)

\* A type object, named by its qualified name.
PyType(name) == PyObj("type", 0, name, <<>>)

\* A list of dict keys.
PyList(ks) == PyObj("list", 0, "", ks)

\* The pair (default_factory, keys) kept by a DefaultDict node.
PyPair(factory, ks) == PyObj("tuple", 0, factory, ks)

\* py::object::operator bool(): whether the handle holds an object.
IsSet(o) == o.t # "nullptr"

\* py::object::is_none()
IsNone(o) == o.t = "NoneType"

\* A dict key: an object of type ty ("int", "str", the user-defined class
\* "K" without ordering methods, or the user-defined class "E" whose ordering
\* methods raise ValueError) with the value v; v orders the keys of type int
\* and of type str.
Key(ty, v) == PyObj(ty, v, "", <<>>)

(***************************************************************************)
(* The type registry.  A registration is identified by the type, the       *)
(* namespace it was registered in and the none_is_leaf registry that holds *)
(* it; nullptr is NoRegistration.                                          *)
(***************************************************************************)
Registration(type, kind, ns, nil) ==
    [type |-> type, kind |-> kind, namespace |-> ns, none_is_leaf |-> nil]

NoRegistration == Registration("", "nullptr", "", FALSE)

\* The kind of the built-in registration of a type ("" if it has none).
BuiltinKind(type, nil) ==
    CASE type = "tuple" -> "Tuple"
      [] type = "list" -> "List"
      [] type = "dict" -> "Dict"
      [] type = "OrderedDict" -> "OrderedDict"
      [] type = "defaultdict" -> "DefaultDict"
      [] type = "deque" -> "Deque"
      [] type = "NoneType" /\ ~nil -> "None"
      [] OTHER -> ""

\* PyTreeTypeRegistry::Lookup<NoneIsLeaf>(type, registry_namespace)
Lookup(nil, type, ns) ==
    IF BuiltinKind(type, nil) # ""
    THEN Registration(type, BuiltinKind(type, nil), "", nil)
    ELSE IF ns # "" /\ [type |-> type, namespace |-> ns] \in registry
    THEN Registration(type, "Custom", ns, nil)
    ELSE IF [type |-> type, namespace |-> ""] \in registry
    THEN Registration(type, "Custom", "", nil)
    ELSE NoRegistration

(***************************************************************************)
(* PyTreeSpec::Node and PyTreeSpec.                                        *)
(***************************************************************************)
Node(kind, arity, node_data, node_entries, custom, num_leaves, num_nodes) ==
    [kind |-> kind, arity |-> arity, node_data |-> node_data,
     node_entries |-> node_entries, custom |-> custom,
     num_leaves |-> num_leaves, num_nodes |-> num_nodes]

\* A default-constructed Node (the member initialisers of the struct).
DefaultNode == Node("Leaf", 0, NullObj, NullObj, NoRegistration, 0, 0)

PyTreeSpec(traversal, nil, ns) ==
    [traversal |-> traversal, none_is_leaf |-> nil, namespace |-> ns]

\* A default-constructed PyTreeSpec.
EmptySpec == PyTreeSpec(<<>>, FALSE, "")

\* The outcome of an operation that returns one spec or throws.
Returned(spec) == [err |-> "", spec |-> spec]

Thrown(err) == [err |-> err, spec |-> EmptySpec]

\* m_traversal.back()
Back(t) == t.traversal[Len(t.traversal)]

\* PyTreeSpec::num_leaves(), for a non-empty traversal
num_leaves(t) == Back(t).num_leaves

\* PyTreeSpec::num_nodes()
num_nodes(t) == Len(t.traversal)

\* PyTreeSpec::num_children(), for a non-empty traversal
num_children(t) == Back(t).arity

\* is_leaf with num_leaves() left out of the strict test (a faulty variant
\* of is_leaf).
is_leaf_any_node(t, strict) == num_nodes(t) = 1

\* is_leaf with strict taken as true whatever was passed (a faulty variant
\* of is_leaf).
is_leaf_always_strict(t, strict) == num_nodes(t) = 1 /\ num_leaves(t) = 1

\* PyTreeSpec::is_leaf(strict)
is_leaf(t, strict) ==
    IF strict THEN num_nodes(t) = 1 /\ num_leaves(t) = 1 ELSE num_nodes(t) = 1

\* PyTreeSpec::Leaf(none_is_leaf)
Leaf(nil) ==
    PyTreeSpec(<<[DefaultNode EXCEPT !.kind = "Leaf", !.arity = 0,
                                     !.num_leaves = 1, !.num_nodes = 1]>>,
               nil, "")

\* None without the test of none_is_leaf: a None node in either mode (a
\* faulty variant of None).
NoneAlwaysNode(nil) ==
    PyTreeSpec(<<[DefaultNode EXCEPT !.kind = "None", !.arity = 0,
                                     !.num_leaves = 0, !.num_nodes = 1]>>,
               nil, "")

\* PyTreeSpec::None(none_is_leaf)
None(nil) ==
    IF nil THEN Leaf(nil)
    ELSE PyTreeSpec(<<[DefaultNode EXCEPT !.kind = "None", !.arity = 0,
                                          !.num_leaves = 0, !.num_nodes = 1]>>,
                    nil, "")

(***************************************************************************)
(* PyTreeSpec::Tuple                                                       *)
(***************************************************************************)
RECURSIVE TupleNamespaceAnyMode(_, _, _, _)
\* The first loop of Tuple without the comparison of each child's
\* none_is_leaf (a faulty variant of TupleNamespace).
TupleNamespaceAnyMode(treespecs, nil, i, registry_namespace) ==
    IF i > Len(treespecs) THEN [err |-> "", namespace |-> registry_namespace]
    ELSE LET treespec == treespecs[i] IN
         IF treespec.namespace # ""
         THEN IF registry_namespace = ""
              THEN TupleNamespaceAnyMode(treespecs, nil, i + 1, treespec.namespace)
              ELSE IF registry_namespace # treespec.namespace
              THEN [err |-> "ValueError: namespace", namespace |-> ""]
              ELSE TupleNamespaceAnyMode(treespecs, nil, i + 1, registry_namespace)
         ELSE TupleNamespaceAnyMode(treespecs, nil, i + 1, registry_namespace)

RECURSIVE TupleNamespaceAdjacent(_, _, _, _)
\* The first loop of Tuple with the namespace found forgotten at a child
\* with the empty namespace, so that only neighbours are compared (a faulty
\* variant of TupleNamespace).
TupleNamespaceAdjacent(treespecs, nil, i, registry_namespace) ==
    IF i > Len(treespecs) THEN [err |-> "", namespace |-> registry_namespace]
    ELSE LET treespec == treespecs[i] IN
         IF treespec.none_is_leaf # nil
         THEN [err |-> "ValueError: none_is_leaf", namespace |-> ""]
         ELSE IF treespec.namespace # ""
         THEN IF registry_namespace = ""
              THEN TupleNamespaceAdjacent(treespecs, nil, i + 1, treespec.namespace)
              ELSE IF registry_namespace # treespec.namespace
              THEN [err |-> "ValueError: namespace", namespace |-> ""]
              ELSE TupleNamespaceAdjacent(treespecs, nil, i + 1, registry_namespace)
         ELSE TupleNamespaceAdjacent(treespecs, nil, i + 1, "")

RECURSIVE TupleNamespace(_, _, _, _)
\* The first loop of Tuple: the checks of each child, in order; the result
\* is the error thrown or the namespace found.
TupleNamespace(treespecs, nil, i, registry_namespace) ==
    IF i > Len(treespecs) THEN [err |-> "", namespace |-> registry_namespace]
    ELSE LET treespec == treespecs[i] IN
         IF treespec.none_is_leaf # nil
         THEN [err |-> "ValueError: none_is_leaf", namespace |-> ""]
         ELSE IF treespec.namespace # ""
         THEN IF registry_namespace = ""
              THEN TupleNamespace(treespecs, nil, i + 1, treespec.namespace)
              ELSE IF registry_namespace # treespec.namespace
              THEN [err |-> "ValueError: namespace", namespace |-> ""]
              ELSE TupleNamespace(treespecs, nil, i + 1, registry_namespace)
         ELSE TupleNamespace(treespecs, nil, i + 1, registry_namespace)

RECURSIVE TupleTraversalReversed(_, _)
\* The second loop of Tuple with each child's traversal put before those of
\* the earlier children (a faulty variant of TupleTraversal).
TupleTraversalReversed(treespecs, i) ==
    IF i > Len(treespecs) THEN <<>>
    ELSE TupleTraversalReversed(treespecs, i + 1) \o treespecs[i].traversal

RECURSIVE TupleTraversal(_, _)
\* The second loop of Tuple: the children's traversals, concatenated.
TupleTraversal(treespecs, i) ==
    IF i > Len(treespecs) THEN <<>>
    ELSE treespecs[i].traversal \o TupleTraversal(treespecs, i + 1)

RECURSIVE TupleLeavesNodes(_, _)
\* The second loop of Tuple with num_nodes() summed in place of num_leaves()
\* (a faulty variant of TupleLeaves).
TupleLeavesNodes(treespecs, i) ==
    IF i > Len(treespecs) THEN 0
    ELSE num_nodes(treespecs[i]) + TupleLeavesNodes(treespecs, i + 1)

RECURSIVE TupleLeaves(_, _)
\* The second loop of Tuple: num_leaves += treespec.num_leaves()
TupleLeaves(treespecs, i) ==
    IF i > Len(treespecs) THEN 0
    ELSE num_leaves(treespecs[i]) + TupleLeaves(treespecs, i + 1)

Tuple(treespecs, nil) ==
    LET ns == TupleNamespace(treespecs, nil, 1, "") IN
    IF ns.err # "" THEN Thrown(ns.err)
    ELSE IF \E i \in 1..Len(treespecs) : Len(treespecs[i].traversal) = 0
    THEN Thrown("InternalError: empty traversal")
    ELSE LET traversal == TupleTraversal(treespecs, 1)
             node == [DefaultNode EXCEPT !.kind = "Tuple",
                                         !.arity = Len(treespecs),
                                         !.num_leaves = TupleLeaves(treespecs, 1),
                                         !.num_nodes = Len(traversal) + 1]
         IN Returned(PyTreeSpec(Append(traversal, node), nil, ns.namespace))

(***************************************************************************)
(* PyTreeSpec::Compose                                                     *)
(***************************************************************************)
\* The copy of a non-leaf node with the leaves that are replaced not taken
\* off num_nodes (a faulty variant of ComposeNode).
ComposeNodeKeepLeaves(node, num_inner_leaves, num_inner_nodes) ==
    [node EXCEPT !.num_leaves = node.num_leaves * num_inner_leaves,
                 !.num_nodes = node.num_nodes + (node.num_leaves * num_inner_nodes)]

\* The copy of a non-leaf node with the leaves of the inner spec added to
\* its leaves (a faulty variant of ComposeNode).
ComposeNodeSumLeaves(node, num_inner_leaves, num_inner_nodes) ==
    [node EXCEPT !.num_leaves = node.num_leaves + num_inner_leaves,
                 !.num_nodes = (node.num_nodes - node.num_leaves)
                               + (node.num_leaves * num_inner_nodes)]

\* The copy of a non-leaf node of the outer spec, with its counts updated.
ComposeNode(node, num_inner_leaves, num_inner_nodes) ==
    [node EXCEPT !.num_leaves = node.num_leaves * num_inner_leaves,
                 !.num_nodes = (node.num_nodes - node.num_leaves)
                               + (node.num_leaves * num_inner_nodes)]

RECURSIVE ComposeTraversalNone(_, _, _)
\* The loop of Compose with the inner spec put in place of None nodes as
\* well as Leaf nodes (a faulty variant of ComposeTraversal).
ComposeTraversalNone(outer, inner, i) ==
    IF i > Len(outer.traversal) THEN <<>>
    ELSE (IF outer.traversal[i].kind \in {"Leaf", "None"}
          THEN inner.traversal
          ELSE <<[outer.traversal[i] EXCEPT
                    !.num_leaves = outer.traversal[i].num_leaves * num_leaves(inner),
                    !.num_nodes = (outer.traversal[i].num_nodes
                                   - outer.traversal[i].num_leaves)
                                  + (outer.traversal[i].num_leaves * num_nodes(inner))]>>)
         \o ComposeTraversalNone(outer, inner, i + 1)

RECURSIVE ComposeTraversalRootOnly(_, _, _)
\* The loop of Compose with only the root node of the inner spec put in
\* place of a Leaf (a faulty variant of ComposeTraversal).
ComposeTraversalRootOnly(outer, inner, i) ==
    IF i > Len(outer.traversal) THEN <<>>
    ELSE (IF outer.traversal[i].kind = "Leaf"
          THEN <<Back(inner)>>
          ELSE <<[outer.traversal[i] EXCEPT
                    !.num_leaves = outer.traversal[i].num_leaves * num_leaves(inner),
                    !.num_nodes = (outer.traversal[i].num_nodes
                                   - outer.traversal[i].num_leaves)
                                  + (outer.traversal[i].num_leaves * num_nodes(inner))]>>)
         \o ComposeTraversalRootOnly(outer, inner, i + 1)

RECURSIVE ComposeTraversal(_, _, _)
\* The loop of Compose over the outer traversal, from node i on.
ComposeTraversal(outer, inner, i) ==
    IF i > Len(outer.traversal) THEN <<>>
    ELSE (IF outer.traversal[i].kind = "Leaf"
          THEN inner.traversal
          ELSE <<ComposeNode(outer.traversal[i], num_leaves(inner), num_nodes(inner))>>)
         \o ComposeTraversal(outer, inner, i + 1)

\* Compose with the namespace of the outer spec always kept (a faulty
\* variant of Compose).
ComposeKeepNamespace(outer, inner) ==
    IF outer.none_is_leaf # inner.none_is_leaf
    THEN Thrown("ValueError: none_is_leaf")
    ELSE IF outer.namespace # "" /\ inner.namespace # ""
            /\ outer.namespace # inner.namespace
    THEN Thrown("ValueError: namespace")
    ELSE IF Len(outer.traversal) = 0 \/ Len(inner.traversal) = 0
    THEN Thrown("InternalError: empty traversal")
    ELSE Returned(PyTreeSpec(ComposeTraversal(outer, inner, 1),
                             outer.none_is_leaf, outer.namespace))

Compose(outer, inner) ==
    IF outer.none_is_leaf # inner.none_is_leaf
    THEN Thrown("ValueError: none_is_leaf")
    ELSE IF outer.namespace # "" /\ inner.namespace # ""
            /\ outer.namespace # inner.namespace
    THEN Thrown("ValueError: namespace")
    ELSE IF Len(outer.traversal) = 0 \/ Len(inner.traversal) = 0
    THEN Thrown("InternalError: empty traversal")
    ELSE LET treespec ==
                 PyTreeSpec(ComposeTraversal(outer, inner, 1),
                            outer.none_is_leaf,
                            IF inner.namespace = "" THEN outer.namespace
                            ELSE inner.namespace)
             root == Back(treespec)
         IN IF root.num_leaves # num_leaves(outer) * num_leaves(inner)
            THEN Thrown("InternalError: leaves mismatch")
            ELSE IF root.num_nodes # (num_nodes(outer) - num_leaves(outer))
                                     + (num_leaves(outer) * num_nodes(inner))
            THEN Thrown("InternalError: nodes mismatch")
            ELSE Returned(treespec)

(***************************************************************************)
(* PyTreeSpec::Children                                                    *)
(***************************************************************************)
\* The outcome of Children: the child specs, or the error thrown.
ChildrenResult(err, specs) == [err |-> err, specs |-> specs]

RECURSIVE ChildrenLoopAppend(_, _, _, _)
\* The loop of Children with each child put after the later children, so
\* that the children come out last first (a faulty variant of ChildrenLoop).
ChildrenLoopAppend(t, i, pos, children) ==
    IF i < 1
    THEN IF pos = 0 THEN ChildrenResult("", children)
         ELSE ChildrenResult("InternalError: pos != 0", <<>>)
    ELSE IF pos - 1 < 0 \/ pos - 1 >= Len(t.traversal)
    THEN ChildrenResult("out_of_range", <<>>)
    ELSE LET node == t.traversal[pos] IN
         IF pos < node.num_nodes
         THEN ChildrenResult("InternalError: walked off start", <<>>)
         ELSE IF node.num_nodes < 0
         THEN ChildrenResult("undefined: reversed range", <<>>)
         ELSE ChildrenLoopAppend(t, i - 1, pos - node.num_nodes,
                  Append(children,
                         PyTreeSpec(SubSeq(t.traversal, pos - node.num_nodes + 1, pos),
                                    t.none_is_leaf, t.namespace)))

RECURSIVE ChildrenLoop(_, _, _, _)
\* The loop of Children for i (1-based here) down to 1; pos is the 0-based
\* end of the slice of child i, children the specs of the later children.
ChildrenLoop(t, i, pos, children) ==
    IF i < 1
    THEN IF pos = 0 THEN ChildrenResult("", children)
         ELSE ChildrenResult("InternalError: pos != 0", <<>>)
    ELSE IF pos - 1 < 0 \/ pos - 1 >= Len(t.traversal)
    THEN ChildrenResult("out_of_range", <<>>)
    ELSE LET node == t.traversal[pos] IN
         IF pos < node.num_nodes
         THEN ChildrenResult("InternalError: walked off start", <<>>)
         ELSE IF node.num_nodes < 0
         THEN ChildrenResult("undefined: reversed range", <<>>)
         ELSE ChildrenLoop(t, i - 1, pos - node.num_nodes,
                  <<PyTreeSpec(SubSeq(t.traversal, pos - node.num_nodes + 1, pos),
                               t.none_is_leaf, t.namespace)>> \o children)

Children(t) ==
    IF Len(t.traversal) = 0 THEN ChildrenResult("", <<>>)
    ELSE ChildrenLoop(t, Back(t).arity, Len(t.traversal) - 1, <<>>)

(***************************************************************************)
(* PyTreeSpec::operator== and operator!=                                   *)
(***************************************************************************)
\* py::object::not_equal: Python's != on the objects a node can hold.
PyNotEqual(o1, o2) == o1 # o2

\* The outcome of a comparison: the boolean returned, or the error thrown.
Compared(err, flag) == [err |-> err, flag |-> flag]

RECURSIVE EqualLoopNoCustom(_, _, _)
\* The loop of operator== with the comparison of the custom pointers left
\* out (a faulty variant of EqualLoop).
EqualLoopNoCustom(x, y, i) ==
    IF i > Len(x.traversal) THEN Compared("", TRUE)
    ELSE LET na == x.traversal[i]
             nb == y.traversal[i]
         IN IF na.kind # nb.kind \/ na.arity # nb.arity
               \/ (~IsSet(na.node_data)) # (~IsSet(nb.node_data))
            THEN Compared("", FALSE)
            ELSE IF IsSet(na.node_data) /\ PyNotEqual(na.node_data, nb.node_data)
            THEN Compared("", FALSE)
            ELSE IF na.num_leaves # nb.num_leaves \/ na.num_nodes # nb.num_nodes
            THEN Compared("InternalError: counts", FALSE)
            ELSE EqualLoopNoCustom(x, y, i + 1)

RECURSIVE EqualLoop(_, _, _)
\* The loop of operator== over the two traversals, from node i on.
EqualLoop(x, y, i) ==
    IF i > Len(x.traversal) THEN Compared("", TRUE)
    ELSE LET na == x.traversal[i]
             nb == y.traversal[i]
         IN IF na.kind # nb.kind \/ na.arity # nb.arity
               \/ (~IsSet(na.node_data)) # (~IsSet(nb.node_data))
               \/ na.custom # nb.custom
            THEN Compared("", FALSE)
            ELSE IF IsSet(na.node_data) /\ PyNotEqual(na.node_data, nb.node_data)
            THEN Compared("", FALSE)
            ELSE IF na.num_leaves # nb.num_leaves \/ na.num_nodes # nb.num_nodes
            THEN Compared("InternalError: counts", FALSE)
            ELSE EqualLoop(x, y, i + 1)

Equal(x, y) ==
    IF Len(x.traversal) # Len(y.traversal) \/ x.none_is_leaf # y.none_is_leaf
    THEN Compared("", FALSE)
    ELSE IF x.namespace # "" /\ y.namespace # "" /\ x.namespace # y.namespace
    THEN Compared("", FALSE)
    ELSE EqualLoop(x, y, 1)

NotEqual(x, y) ==
    LET r == Equal(x, y) IN Compared(r.err, IF r.err = "" THEN ~r.flag ELSE FALSE)

(***************************************************************************)
(* AbslHashValue.  A hash value is the sequence of the values combined     *)
(* into it, so that two hashes are equal exactly when every combined value *)
(* is (a collision-free hash).                                             *)
(***************************************************************************)
\* py::hash of a hashable object: equal objects have equal hashes.
PyHash(o) == <<o>>

RECURSIVE HashKeys(_, _, _)
\* data_hash = HashOf(data_hash, py::hash(key)) for each key from i on.
HashKeys(data_hash, keys, i) ==
    IF i > Len(keys) THEN data_hash
    ELSE HashKeys(data_hash \o PyHash(keys[i]), keys, i + 1)

\* data_hash with the node_data of a Custom node hashed like that of a
\* Tuple node (a faulty variant of DataHash).
DataHashCustom(n) ==
    CASE n.kind \in {"Custom", "Leaf", "None", "Tuple", "List", "NamedTuple", "Deque",
                     "StructSequence"} ->
           PyHash(IF IsSet(n.node_data) THEN n.node_data ELSE PyNone)
      [] n.kind = "DefaultDict" ->
           HashKeys(PyHash(PyStr(n.node_data.s)), n.node_data.ks, 1)
      [] n.kind \in {"Dict", "OrderedDict"} ->
           HashKeys(<<>>, n.node_data.ks, 1)

\* data_hash of AbslHashValue(H, const Node&); 0 is the empty sequence.
DataHash(n) ==
    CASE n.kind = "Custom" -> <<>>
      [] n.kind \in {"Leaf", "None", "Tuple", "List", "NamedTuple", "Deque",
                     "StructSequence"} ->
           PyHash(IF IsSet(n.node_data) THEN n.node_data ELSE PyNone)
      [] n.kind = "DefaultDict" ->
           HashKeys(PyHash(PyStr(n.node_data.s)), n.node_data.ks, 1)
      [] n.kind \in {"Dict", "OrderedDict"} ->
           HashKeys(<<>>, n.node_data.ks, 1)

\* AbslHashValue(H, const Node&)
HashNode(n) ==
    [kind |-> n.kind, arity |-> n.arity, custom |-> n.custom,
     num_leaves |-> n.num_leaves, num_nodes |-> n.num_nodes,
     data_hash |-> DataHash(n)]

\* AbslHashValue(H, const PyTreeSpec&)
Hash(t) ==
    [traversal |-> [i \in 1..Len(t.traversal) |-> HashNode(t.traversal[i])],
     none_is_leaf |-> t.none_is_leaf, namespace |-> t.namespace]

(***************************************************************************)
(* The pickle codec.  A picklable is the outer tuple: size is its length   *)
(* and, when that is 3, nodes / none_is_leaf / namespace are its elements. *)
(* A node state is a sequence of Python objects.                           *)
(***************************************************************************)
\* enum PyTreeKind, in the order of its ordinals 0, 1, ...
PyTreeKind ==
    <<"Custom", "Leaf", "None", "Tuple", "List", "Dict", "NamedTuple",
      "OrderedDict", "DefaultDict", "Deque", "StructSequence">>

\* static_cast<ssize_t>(kind)
KindOrdinal(kind) == CHOOSE i \in 0..(Len(PyTreeKind) - 1) : PyTreeKind[i + 1] = kind

\* static_cast<PyTreeKind>(ordinal); "" for a value that names no kind
KindOfOrdinal(i) ==
    IF i >= 0 /\ i < Len(PyTreeKind) THEN PyTreeKind[i + 1] ELSE ""

Picklable(size, nodes, nil, ns) ==
    [size |-> size, nodes |-> nodes, none_is_leaf |-> nil, namespace |-> ns]

\* The 7-tuple ToPicklable makes of one node.
NodeState(node) ==
    <<PyInt(KindOrdinal(node.kind)),
      PyInt(node.arity),
      IF IsSet(node.node_data) THEN node.node_data ELSE PyNone,
      IF IsSet(node.node_entries) THEN node.node_entries ELSE PyNone,
      IF node.custom # NoRegistration THEN PyType(node.custom.type) ELSE PyNone,
      PyInt(node.num_leaves),
      PyInt(node.num_nodes)>>

\* PyTreeSpec::ToPicklable
ToPicklable(t) ==
    Picklable(3, [i \in 1..Len(t.traversal) |-> NodeState(t.traversal[i])],
              t.none_is_leaf, t.namespace)

\* The outcome of decoding one node state.
Decoded(err, node) == [err |-> err, node |-> node]

\* The switch on node.kind in the loop of FromPicklableImpl, with the
\* node_data check of a List node left out (a faulty variant of DecodeData).
DecodeDataLax(kind, t) ==
    CASE kind \in {"Leaf", "None", "Tuple"} ->
           IF ~IsNone(t[3]) THEN [err |-> "RuntimeError: Malformed", node_data |-> NullObj]
           ELSE [err |-> "", node_data |-> NullObj]
      [] kind = "List" -> [err |-> "", node_data |-> NullObj]
      [] kind \in {"Dict", "OrderedDict"} ->
           IF t[3].t # "list" THEN [err |-> "cast_error", node_data |-> NullObj]
           ELSE [err |-> "", node_data |-> t[3]]
      [] kind \in {"NamedTuple", "StructSequence"} ->
           IF t[3].t # "type" THEN [err |-> "cast_error", node_data |-> NullObj]
           ELSE [err |-> "", node_data |-> t[3]]
      [] kind \in {"DefaultDict", "Deque", "Custom"} -> [err |-> "", node_data |-> t[3]]
      [] OTHER -> [err |-> "InternalError: unknown kind", node_data |-> NullObj]

\* The switch on node.kind in the loop of FromPicklableImpl: the error it
\* throws ("" if none) and the node_data it stores.
DecodeData(kind, t) ==
    CASE kind \in {"Leaf", "None", "Tuple", "List"} ->
           IF ~IsNone(t[3]) THEN [err |-> "RuntimeError: Malformed", node_data |-> NullObj]
           ELSE [err |-> "", node_data |-> NullObj]
      [] kind \in {"Dict", "OrderedDict"} ->
           IF t[3].t # "list" THEN [err |-> "cast_error", node_data |-> NullObj]
           ELSE [err |-> "", node_data |-> t[3]]
      [] kind \in {"NamedTuple", "StructSequence"} ->
           IF t[3].t # "type" THEN [err |-> "cast_error", node_data |-> NullObj]
           ELSE [err |-> "", node_data |-> t[3]]
      [] kind \in {"DefaultDict", "Deque", "Custom"} -> [err |-> "", node_data |-> t[3]]
      [] OTHER -> [err |-> "InternalError: unknown kind", node_data |-> NullObj]

\* What the second part of the loop body yields: the error thrown ("" if
\* none), node_entries and custom.
DecodedCustom(err, node_entries, custom) ==
    [err |-> err, node_entries |-> node_entries, custom |-> custom]

\* PyTreeTypeRegistry::Lookup of a custom_type object of a node state: an
\* object that is no class has no registration.
LookupObject(none_is_leaf, o, registry_namespace) ==
    IF o.t # "type" THEN NoRegistration
    ELSE Lookup(none_is_leaf, o.s, registry_namespace)

\* The if / else-if on node.kind == Custom in the loop of FromPicklableImpl,
\* with the check of node.custom against nullptr left out (a faulty variant
\* of DecodeCustom).
DecodeCustomUnchecked(kind, t, none_is_leaf, registry_namespace) ==
    IF kind = "Custom"
    THEN IF ~IsNone(t[4]) /\ t[4].t # "tuple"
         THEN DecodedCustom("cast_error", NullObj, NoRegistration)
         ELSE DecodedCustom("", IF IsNone(t[4]) THEN NullObj ELSE t[4],
                            IF IsNone(t[5]) THEN NoRegistration
                            ELSE LookupObject(none_is_leaf, t[5], registry_namespace))
    ELSE IF ~IsNone(t[4]) \/ ~IsNone(t[5])
    THEN DecodedCustom("RuntimeError: Malformed", NullObj, NoRegistration)
    ELSE DecodedCustom("", NullObj, NoRegistration)

\* The if / else-if on node.kind == Custom in the loop of FromPicklableImpl.
DecodeCustom(kind, t, none_is_leaf, registry_namespace) ==
    IF kind = "Custom"
    THEN IF ~IsNone(t[4]) /\ t[4].t # "tuple"
         THEN DecodedCustom("cast_error", NullObj, NoRegistration)
         ELSE LET custom == IF IsNone(t[5]) THEN NoRegistration
                            ELSE LookupObject(none_is_leaf, t[5], registry_namespace)
              IN IF custom = NoRegistration
                 THEN DecodedCustom("RuntimeError: Unknown custom type", NullObj,
                                    NoRegistration)
                 ELSE DecodedCustom("", IF IsNone(t[4]) THEN NullObj ELSE t[4], custom)
    ELSE IF ~IsNone(t[4]) \/ ~IsNone(t[5])
    THEN DecodedCustom("RuntimeError: Malformed", NullObj, NoRegistration)
    ELSE DecodedCustom("", NullObj, NoRegistration)

\* The body of the loop of FromPicklableImpl for one node state t.
DecodeNode(t, none_is_leaf, registry_namespace) ==
    IF Len(t) # 7 THEN Decoded("RuntimeError: Malformed", DefaultNode)
    ELSE IF t[1].t # "int" \/ t[2].t # "int" THEN Decoded("cast_error", DefaultNode)
    ELSE LET kind == KindOfOrdinal(t[1].n)
             data == DecodeData(kind, t)
             cust == DecodeCustom(kind, t, none_is_leaf, registry_namespace)
         IN IF data.err # "" THEN Decoded(data.err, DefaultNode)
            ELSE IF cust.err # "" THEN Decoded(cust.err, DefaultNode)
            ELSE IF t[6].t # "int" \/ t[7].t # "int"
            THEN Decoded("cast_error", DefaultNode)
            ELSE Decoded("", Node(kind, t[2].n, data.node_data, cust.node_entries,
                                  cust.custom, t[6].n, t[7].n))

RECURSIVE DecodeLoop(_, _, _)
\* The loop of FromPicklableImpl over the node states, from state i on.
DecodeLoop(pk, i, traversal) ==
    IF i > Len(pk.nodes)
    THEN Returned(PyTreeSpec(traversal, pk.none_is_leaf, pk.namespace))
    ELSE LET d == DecodeNode(pk.nodes[i], pk.none_is_leaf, pk.namespace) IN
         IF d.err # "" THEN Thrown(d.err)
         ELSE DecodeLoop(pk, i + 1, Append(traversal, d.node))

\* PyTreeSpec::FromPicklableImpl
FromPicklableImpl(pk) ==
    IF pk.size # 3 THEN Thrown("RuntimeError: Malformed")
    ELSE DecodeLoop(pk, 1, <<>>)

\* PyTreeSpec::FromPicklable
FromPicklable(pk) == FromPicklableImpl(pk)

(***************************************************************************)
(* Python values (pytrees).  A value is a record of one shape: ty is its   *)
(* type, x the payload of an int, aux the maxlen of a deque / the          *)
(* default_factory of a defaultdict / the auxiliary data of a user         *)
(* container, keys the keys of a mapping in insertion order and items the  *)
(* children (the values of a mapping, aligned with keys).                  *)
(***************************************************************************)
Val(ty, x, aux, keys, items) ==
    [ty |-> ty, x |-> x, aux |-> aux, keys |-> keys, items |-> items]

IntVal(x) == Val("int", x, NullObj, <<>>, <<>>)

NoneVal == Val("NoneType", 0, NullObj, <<>>, <<>>)

TupleVal(items) == Val("tuple", 0, NullObj, <<>>, items)

ListVal(items) == Val("list", 0, NullObj, <<>>, items)

\* collections.deque(items, maxlen): only the last maxlen items are kept.
DequeVal(items, maxlen) ==
    Val("deque", 0, maxlen, <<>>,
        IF maxlen.t = "int" /\ Len(items) > maxlen.n
        THEN SubSeq(items, Len(items) - maxlen.n + 1, Len(items))
        ELSE items)

RECURSIVE DictInsert(_, _, _, _, _)
\* d[keys[i]] = items[i] for i on, into the mapping (ks, vs): a key already
\* present keeps its place and takes the new value.
DictInsert(ks, vs, keys, items, i) ==
    IF i > Len(keys) THEN [keys |-> ks, items |-> vs]
    ELSE IF \E j \in 1..Len(ks) : ks[j] = keys[i]
    THEN LET j == CHOOSE j \in 1..Len(ks) : ks[j] = keys[i] IN
         DictInsert(ks, [vs EXCEPT ![j] = items[i]], keys, items, i + 1)
    ELSE DictInsert(Append(ks, keys[i]), Append(vs, items[i]), keys, items, i + 1)

\* A mapping of type ty built by inserting the pairs in order.
MappingVal(ty, aux, keys, items) ==
    LET d == DictInsert(<<>>, <<>>, keys, items, 1) IN
    Val(ty, 0, aux, d.keys, d.items)

DictVal(keys, items) == MappingVal("dict", NullObj, keys, items)

OrderedDictVal(keys, items) == MappingVal("OrderedDict", NullObj, keys, items)

DefaultDictVal(factory, keys, items) ==
    MappingVal("defaultdict", PyStr(factory), keys, items)

\* An instance of the class ty that holds children and auxiliary data.
ObjectVal(ty, aux, items) == Val(ty, 0, aux, <<>>, items)

\* The classes that are namedtuple classes: subclasses of tuple whose
\* _fields is a tuple of str.
NamedTupleTypes == {"Point"}

\* The classes that are PyStructSequence types.
StructSequenceTypes == {"stat_result"}

\* IsNamedTuple(object)
IsNamedTuple(v) == v.ty \in NamedTupleTypes

\* IsStructSequence(object)
IsStructSequence(v) == v.ty \in StructSequenceTypes

(***************************************************************************)
(* TotalOrderSort and SortedDictKeys                                       *)
(***************************************************************************)
\* The key types whose instances Python's < orders; a key of another type
\* (a user-defined class without __lt__) is ordered against no key.
OrderedTypes == {"int", "str"}

\* Python's < on two keys is defined (raises no TypeError): between keys of
\* the same ordered type only.
Comparable(k1, k2) == k1.t = k2.t /\ k1.t \in OrderedTypes

NaturalLess(k1, k2) == k1.n < k2.n

\* The qualified name of the type of a key, "module.qualname".
QualName(k) ==
    CASE k.t = "int" -> "builtins.int"
      [] k.t = "str" -> "builtins.str"
      [] k.t = "E" -> "__main__.E"
      [] OTHER -> "__main__.K"

\* The qualified names in the order of Python's < on str.
QualNameOrder == <<"__main__.E", "__main__.K", "builtins.int", "builtins.str">>

\* < on the sort keys (qualname, key) of the fallback sort: the qualified
\* names decide, and between keys of one type the keys do.
FallbackLess(k1, k2) ==
    IF QualName(k1) # QualName(k2)
    THEN (CHOOSE i \in 1..Len(QualNameOrder) : QualNameOrder[i] = QualName(k1))
         < (CHOOSE i \in 1..Len(QualNameOrder) : QualNameOrder[i] = QualName(k2))
    ELSE NaturalLess(k1, k2)

\* The error k1 < k2 raises, on the keys or (fallback) on their sort keys
\* (qualname, key): tuples whose qualified names differ are ordered by the
\* names alone; an ordering method of E raises ValueError; keys of two
\* types, or of one type without an order, raise TypeError.  "" if none.
SortRaises(k1, k2, fallback) ==
    IF fallback /\ QualName(k1) # QualName(k2) THEN ""
    ELSE IF k1.t = "E" \/ k2.t = "E" THEN "ValueError"
    ELSE IF Comparable(k1, k2) THEN ""
    ELSE "TypeError"

RECURSIVE CountRun(_, _, _, _)
\* count_run of list.sort from key i on: the error raised and the length of
\* the run the list starts with.
CountRun(keys, fallback, i, descending) ==
    IF i > Len(keys) THEN [err |-> "", n |-> Len(keys)]
    ELSE IF SortRaises(keys[i], keys[i - 1], fallback) # ""
    THEN [err |-> SortRaises(keys[i], keys[i - 1], fallback), n |-> 0]
    ELSE IF (IF fallback THEN FallbackLess(keys[i], keys[i - 1])
             ELSE NaturalLess(keys[i], keys[i - 1])) = descending
    THEN CountRun(keys, fallback, i + 1, descending)
    ELSE [err |-> "", n |-> i - 1]

RECURSIVE BinarySearch(_, _, _, _, _)
\* The loop of binarysort for one pivot: l and r are 0-based; the error
\* raised and the place found.
BinarySearch(list, fallback, pivot, l, r) ==
    IF l >= r THEN [err |-> "", pos |-> l]
    ELSE LET q == l + ((r - l) \div 2) IN
         IF SortRaises(pivot, list[q + 1], fallback) # ""
         THEN [err |-> SortRaises(pivot, list[q + 1], fallback), pos |-> 0]
         ELSE IF (IF fallback THEN FallbackLess(pivot, list[q + 1])
                  ELSE NaturalLess(pivot, list[q + 1]))
         THEN BinarySearch(list, fallback, pivot, l, q)
         ELSE BinarySearch(list, fallback, pivot, q + 1, r)

RECURSIVE BinarySort(_, _, _)
\* binarysort from the key at start on, the keys before it sorted: each key
\* is inserted at the place the search finds.  (The place and the list with
\* the key inserted are bound as elements of a set, which evaluates each of
\* them once.)
BinarySort(list, fallback, start) ==
    IF start > Len(list) THEN [err |-> "", keys |-> list]
    ELSE CHOOSE sorted \in UNION {
             IF found.err # "" THEN {[err |-> found.err, keys |-> list]}
             ELSE {BinarySort(inserted, fallback, start + 1) :
                     inserted \in {SubSeq(list, 1, found.pos) \o <<list[start]>>
                                   \o SubSeq(list, found.pos + 1, start - 1)
                                   \o SubSeq(list, start + 1, Len(list))}} :
             found \in {BinarySearch(list, fallback, list[start], 0, start - 1)}} : TRUE

\* list.sort() of a list of fewer than 64 keys, or list.sort(key=(qualname,
\* key)) when fallback: count_run finds the run the list starts with
\* (reversed in place when it descends), then binarysort inserts each later
\* key.  A comparison that raises ends the sort with that error, the keys
\* left as arranged so far.
ListSort(keys, fallback) ==
    IF Len(keys) < 2 THEN [err |-> "", keys |-> keys]
    ELSE IF SortRaises(keys[2], keys[1], fallback) # ""
    THEN [err |-> SortRaises(keys[2], keys[1], fallback), keys |-> keys]
    ELSE CHOOSE sorted \in UNION {
             UNION {
                 IF run.err # "" THEN {[err |-> run.err, keys |-> keys]}
                 ELSE {BinarySort(list, fallback, run.n + 1) :
                         list \in {[i \in 1..Len(keys) |->
                                      IF descending /\ i <= run.n
                                      THEN keys[run.n + 1 - i]
                                      ELSE keys[i]]}} :
                 run \in {CountRun(keys, fallback, 3, descending)}} :
             descending \in {IF fallback THEN FallbackLess(keys[2], keys[1])
                             ELSE NaturalLess(keys[2], keys[1])}} : TRUE

\* TotalOrderSort(list) with the keys left as they are whenever the first
\* sort raises TypeError (a faulty variant of TotalOrderSort).
TotalOrderSortNoFallback(keys) ==
    IF ListSort(keys, FALSE).err = "" THEN ListSort(keys, FALSE).keys
    ELSE keys

\* TotalOrderSort(list), with the error it throws: list.sort(); if that
\* raises TypeError (two keys it compares are not ordered), list.sort(key=
\* (qualname, key)) of the list as the first sort left it; if that raises
\* TypeError too (two keys of one type are not ordered), the error is
\* cleared and the keys stay as the second sort left them.  Any other error
\* of either sort is thrown on.
TotalOrderSortOutcome(keys) ==
    CHOOSE sorted \in UNION {
        IF ex1.err # "TypeError" THEN {ex1}
        ELSE {IF ex2.err = "TypeError" THEN [err |-> "", keys |-> ex2.keys] ELSE ex2 :
                ex2 \in {ListSort(ex1.keys, TRUE)}} :
        ex1 \in {ListSort(keys, FALSE)}} : TRUE

\* The list after TotalOrderSort(list).
TotalOrderSort(keys) == TotalOrderSortOutcome(keys).keys

\* SortedDictKeys(dict)
SortedDictKeys(v) == TotalOrderSort(v.keys)

\* dict[key], for a key of the mapping
GetItem(v, key) == v.items[CHOOSE i \in 1..Len(v.keys) : v.keys[i] = key]

(***************************************************************************)
(* PyTreeSpec::GetKind and PyTreeSpec::Flatten                             *)
(***************************************************************************)
\* GetKind with the namedtuple and struct sequence tests made before the
\* registry is consulted (a faulty variant of GetKind).
GetKindRegistryLast(nil, v, ns) ==
    LET registration == Lookup(nil, v.ty, ns) IN
    IF IsNamedTuple(v) THEN [kind |-> "NamedTuple", custom |-> NoRegistration]
    ELSE IF IsStructSequence(v)
    THEN [kind |-> "StructSequence", custom |-> NoRegistration]
    ELSE IF registration # NoRegistration
    THEN [kind |-> registration.kind,
          custom |-> IF registration.kind = "Custom" THEN registration
                     ELSE NoRegistration]
    ELSE [kind |-> "Leaf", custom |-> NoRegistration]

\* GetKind<NoneIsLeaf>(handle, &custom, registry_namespace): the kind
\* returned and the registration stored in *custom.
GetKind(nil, v, ns) ==
    LET registration == Lookup(nil, v.ty, ns) IN
    IF registration # NoRegistration
    THEN [kind |-> registration.kind,
          custom |-> IF registration.kind = "Custom" THEN registration
                     ELSE NoRegistration]
    ELSE IF IsNamedTuple(v) THEN [kind |-> "NamedTuple", custom |-> NoRegistration]
    ELSE IF IsStructSequence(v)
    THEN [kind |-> "StructSequence", custom |-> NoRegistration]
    ELSE [kind |-> "Leaf", custom |-> NoRegistration]

\* The children of a container value in the order flatten visits them.
FlattenChildren(kind, v) ==
    IF kind \in {"Dict", "DefaultDict"}
    THEN LET keys == SortedDictKeys(v) IN
         [i \in 1..Len(keys) |-> GetItem(v, keys[i])]
    ELSE v.items

\* The node_data flatten records for a container value.
FlattenNodeData(kind, v) ==
    CASE kind = "Dict" -> PyList(SortedDictKeys(v))
      [] kind = "OrderedDict" -> PyList(v.keys)
      [] kind = "DefaultDict" -> PyPair(v.aux.s, SortedDictKeys(v))
      [] kind \in {"NamedTuple", "StructSequence"} -> PyType(v.ty)
      [] kind \in {"Deque", "Custom"} -> v.aux
      [] OTHER -> NullObj

\* What a flatten appends: the leaves and the nodes.
Flattened(leaves, traversal) == [leaves |-> leaves, traversal |-> traversal]

RECURSIVE FlattenInto(_, _, _)
RECURSIVE FlattenAll(_, _, _, _)
\* FlattenInto for each of the children from i on, concatenated.
FlattenAll(children, nil, ns, i) ==
    IF i > Len(children) THEN Flattened(<<>>, <<>>)
    ELSE LET head == FlattenInto(children[i], nil, ns)
             rest == FlattenAll(children, nil, ns, i + 1)
         IN Flattened(head.leaves \o rest.leaves, head.traversal \o rest.traversal)

\* PyTreeSpec::FlattenInto(handle, leaves, /*leaf_predicate=*/nullopt, ...)
FlattenInto(v, nil, ns) ==
    CHOOSE f \in UNION {
        IF k.kind = "Leaf"
        THEN {Flattened(<<v>>, <<[DefaultNode EXCEPT !.kind = "Leaf", !.arity = 0,
                                                    !.num_leaves = 1, !.num_nodes = 1]>>)}
        ELSE IF k.kind = "None"
        THEN {Flattened(<<>>, <<[DefaultNode EXCEPT !.kind = "None", !.arity = 0,
                                                   !.num_leaves = 0, !.num_nodes = 1]>>)}
        ELSE UNION {
                 {Flattened(sub.leaves,
                            Append(sub.traversal,
                                   Node(k.kind, Len(children), FlattenNodeData(k.kind, v),
                                        NullObj, k.custom, Len(sub.leaves),
                                        Len(sub.traversal) + 1))) :
                    sub \in {FlattenAll(children, nil, ns, 1)}} :
                 children \in {FlattenChildren(k.kind, v)}} :
        k \in {GetKind(nil, v, ns)}} : TRUE

\* PyTreeSpec::Flatten(tree, nullopt, none_is_leaf, registry_namespace)
Flatten(tree, nil, ns) ==
    LET f == FlattenInto(tree, nil, ns) IN
    [leaves |-> f.leaves, spec |-> PyTreeSpec(f.traversal, nil, ns)]

(***************************************************************************)
(* PyTreeSpec::MakeNode and PyTreeSpec::Unflatten                          *)
(***************************************************************************)
\* The outcome of building a value: the value, or the error thrown.
Made(err, val) == [err |-> err, val |-> val]

\* MakeNode with a deque built without its maxlen (a faulty variant of
\* MakeNode).
MakeNodeNoMaxlen(node, children) ==
    IF Len(children) # node.arity
    THEN Made("InternalError: Node arity did not match", NoneVal)
    ELSE CASE node.kind = "Leaf" ->
                Made("InternalError: MakeNode not implemented for leaves", NoneVal)
           [] node.kind = "None" -> Made("", NoneVal)
           [] node.kind = "Tuple" -> Made("", TupleVal(children))
           [] node.kind \in {"NamedTuple", "StructSequence"} ->
                Made("", ObjectVal(node.node_data.s, NullObj, children))
           [] node.kind = "List" -> Made("", ListVal(children))
           [] node.kind = "Deque" -> Made("", DequeVal(children, PyNone))
           [] node.kind = "Dict" ->
                Made("", DictVal(node.node_data.ks, children))
           [] node.kind = "OrderedDict" ->
                Made("", OrderedDictVal(node.node_data.ks, children))
           [] node.kind = "DefaultDict" ->
                Made("", DefaultDictVal(node.node_data.s, node.node_data.ks, children))
           [] node.kind = "Custom" ->
                Made("", ObjectVal(node.custom.type, node.node_data, children))
           [] OTHER -> Made("InternalError: unknown kind", NoneVal)

\* MakeNode with the case of a None node falling into the case below it,
\* which builds a tuple (a faulty variant of MakeNode).
MakeNodeNoneAsTuple(node, children) ==
    IF Len(children) # node.arity
    THEN Made("InternalError: Node arity did not match", NoneVal)
    ELSE CASE node.kind = "Leaf" ->
                Made("InternalError: MakeNode not implemented for leaves", NoneVal)
           [] node.kind \in {"None", "Tuple"} -> Made("", TupleVal(children))
           [] node.kind \in {"NamedTuple", "StructSequence"} ->
                Made("", ObjectVal(node.node_data.s, NullObj, children))
           [] node.kind = "List" -> Made("", ListVal(children))
           [] node.kind = "Deque" -> Made("", DequeVal(children, node.node_data))
           [] node.kind = "Dict" ->
                Made("", DictVal(node.node_data.ks, children))
           [] node.kind = "OrderedDict" ->
                Made("", OrderedDictVal(node.node_data.ks, children))
           [] node.kind = "DefaultDict" ->
                Made("", DefaultDictVal(node.node_data.s, node.node_data.ks, children))
           [] node.kind = "Custom" ->
                Made("", ObjectVal(node.custom.type, node.node_data, children))
           [] OTHER -> Made("InternalError: unknown kind", NoneVal)

\* PyTreeSpec::MakeNode(node, children)
MakeNode(node, children) ==
    IF Len(children) # node.arity
    THEN Made("InternalError: Node arity did not match", NoneVal)
    ELSE CASE node.kind = "Leaf" ->
                Made("InternalError: MakeNode not implemented for leaves", NoneVal)
           [] node.kind = "None" -> Made("", NoneVal)
           [] node.kind = "Tuple" -> Made("", TupleVal(children))
           [] node.kind \in {"NamedTuple", "StructSequence"} ->
                Made("", ObjectVal(node.node_data.s, NullObj, children))
           [] node.kind = "List" -> Made("", ListVal(children))
           [] node.kind = "Deque" -> Made("", DequeVal(children, node.node_data))
           [] node.kind = "Dict" ->
                Made("", DictVal(node.node_data.ks, children))
           [] node.kind = "OrderedDict" ->
                Made("", OrderedDictVal(node.node_data.ks, children))
           [] node.kind = "DefaultDict" ->
                Made("", DefaultDictVal(node.node_data.s, node.node_data.ks, children))
           [] node.kind = "Custom" ->
                Made("", ObjectVal(node.custom.type, node.node_data, children))
           [] OTHER -> Made("InternalError: unknown kind", NoneVal)

RECURSIVE UnflattenLoop(_, _, _, _, _)
\* The loop of Unflatten over the traversal from node i on; agenda is the
\* stack of values built, next the index of the next leaf to take.
UnflattenLoop(t, leaves, i, agenda, next) ==
    IF i > Len(t.traversal)
    THEN IF Len(agenda) # 1
         THEN Made("InternalError: did not yield a singleton", NoneVal)
         ELSE Made("", agenda[1])
    ELSE LET node == t.traversal[i] IN
         IF node.kind = "Leaf"
         THEN IF next > Len(leaves)
              THEN Made("ValueError: too few leaves", NoneVal)
              ELSE UnflattenLoop(t, leaves, i + 1, Append(agenda, leaves[next]),
                                 next + 1)
         ELSE IF Len(agenda) < node.arity
         THEN Made("InternalError: too few elements", NoneVal)
         ELSE LET size == Len(agenda)
                  made == MakeNode(node, SubSeq(agenda, size - node.arity + 1, size))
              IN IF made.err # "" THEN made
                 ELSE UnflattenLoop(t, leaves, i + 1,
                          Append(SubSeq(agenda, 1, size - node.arity), made.val),
                          next)

\* Unflatten without the comparison of the number of leaves with
\* num_leaves() (a faulty variant of Unflatten).
UnflattenUncounted(t, leaves) ==
    IF Len(t.traversal) = 0 THEN Made("InternalError: empty traversal", NoneVal)
    ELSE UnflattenLoop(t, leaves, 1, <<>>, 1)

\* PyTreeSpec::Unflatten(leaves)
Unflatten(t, leaves) ==
    IF Len(t.traversal) = 0 THEN Made("InternalError: empty traversal", NoneVal)
    ELSE IF Len(leaves) # num_leaves(t)
    THEN Made("ValueError: leaf count", NoneVal)
    ELSE UnflattenLoop(t, leaves, 1, <<>>, 1)

(***************************************************************************)
(* PyTreeSpec::FlattenUpTo                                                 *)
(***************************************************************************)
\* The outcome of FlattenUpTo: the sub-values, or the error thrown.
UpTo(err, leaves) == [err |-> err, leaves |-> leaves]

\* The test of a value against a node of the spec with the kind compared
\* and nothing else (a faulty variant of NodeMatches).
NodeMatchesKind(node, k, v) == k.kind = node.kind

\* The value v, classified as k, matches the internal node of the spec: the
\* same kind (for a custom node the same registration), the same arity and
\* the same node_data.
NodeMatches(node, k, v) ==
    /\ k.kind = node.kind
    /\ k.custom = node.custom
    /\ node.kind # "None" =>
          /\ Len(v.items) = node.arity
          /\ FlattenNodeData(k.kind, v) = node.node_data

RECURSIVE FlattenUpToInto(_, _)
RECURSIVE FlattenUpToAll(_, _, _)
\* The sub-values of the children from i on, each against its child spec.
FlattenUpToAll(specs, children, i) ==
    IF i > Len(specs) \/ i > Len(children) THEN UpTo("", <<>>)
    ELSE LET head == FlattenUpToInto(specs[i], children[i]) IN
         IF head.err # "" THEN head
         ELSE LET rest == FlattenUpToAll(specs, children, i + 1) IN
              IF rest.err # "" THEN rest
              ELSE UpTo("", head.leaves \o rest.leaves)

\* The lockstep traversal of the spec t and the value v: at a Leaf of the
\* spec the value is kept whole; at an internal node the value must match.
FlattenUpToInto(t, v) ==
    LET node == Back(t) IN
    IF node.kind = "Leaf" THEN UpTo("", <<v>>)
    ELSE LET k == GetKind(t.none_is_leaf, v, t.namespace) IN
         IF ~NodeMatches(node, k, v)
         THEN UpTo("ValueError: structure mismatch", <<>>)
         ELSE IF node.kind = "None" THEN UpTo("", <<>>)
         ELSE FlattenUpToAll(Children(t).specs, FlattenChildren(k.kind, v), 1)

\* PyTreeSpec::FlattenUpTo(full_tree)
FlattenUpTo(t, v) ==
    IF Len(t.traversal) = 0 THEN UpTo("InternalError: empty traversal", <<>>)
    ELSE FlattenUpToInto(t, v)

(***************************************************************************)
(* PyTreeSpec::ToString                                                    *)
(***************************************************************************)
RECURSIVE IntString(_)
\* The decimal digits of an int.
IntString(n) ==
    IF n < 0 THEN "-" \o IntString(0 - n)
    ELSE IF n < 10 THEN <<"0", "1", "2", "3", "4", "5", "6", "7", "8", "9">>[n + 1]
    ELSE IntString(n \div 10) \o IntString(n % 10)

\* The text of a str object: PyStr(s) holds it; the str keys 1, 2, 3 of
\* dicts are "a", "b", "c".
StrText(o) ==
    IF o.s # "" THEN o.s
    ELSE IF o.n \in 1..3 THEN <<"a", "b", "c">>[o.n]
    ELSE ""

\* py::repr(object)
PyRepr(o) ==
    CASE o.t = "NoneType" -> "None"
      [] o.t = "int" -> IntString(o.n)
      [] o.t = "str" -> "'" \o StrText(o) \o "'"
      [] o.t = "type" -> "<class '" \o o.s \o "'>"
      [] OTHER -> "<" \o o.t \o " object at " \o IntString(o.n) \o ">"

\* py::str(object)
PyToStr(o) == IF o.t = "str" THEN StrText(o) ELSE PyRepr(o)

\* type._fields of a namedtuple class, and the names of tp_members of a
\* PyStructSequence type.
FieldNames(type) ==
    CASE type = "Point" -> <<"x", "y">>
      [] type = "stat_result" -> <<"st_mode", "st_ino">>
      [] OTHER -> <<>>

RECURSIVE StrJoin(_, _)
\* absl::StrJoin(strings, separator)
StrJoin(strings, separator) ==
    IF strings = <<>> THEN ""
    ELSE IF Len(strings) = 1 THEN strings[1]
    ELSE strings[1] \o separator \o StrJoin(Tail(strings), separator)

\* The loops that append "<separator><name><between><child>" for each name
\* and the child string at its position; open and close surround each.
NamedChildren(names, children, open, between, close) ==
    StrJoin([i \in 1..Len(names) |-> open \o names[i] \o between \o children[i] \o close],
            ", ")

\* The outcome of ToString: the string, or the error thrown.
Printed(err, str) == [err |-> err, str |-> str]

\* The representation of a Tuple node without the trailing comma of the
\* tuple of one element (a faulty variant of TupleRepresentation).
TupleRepresentationNoComma(node, children) == "(" \o children \o ")"

\* case PyTreeKind::Tuple of ToString
TupleRepresentation(node, children) ==
    "(" \o children \o (IF node.arity = 1 THEN "," ELSE "") \o ")"

\* The switch of ToString for a node that is not a Leaf; strings are the
\* node.arity strings on top of the agenda.
Representation(node, strings) ==
    LET children == StrJoin(strings, ", ") IN
    CASE node.kind = "None" -> Printed("", "None")
      [] node.kind = "Tuple" -> Printed("", TupleRepresentation(node, children))
      [] node.kind = "List" -> Printed("", "[" \o children \o "]")
      [] node.kind = "Deque" ->
            IF IsNone(node.node_data)
            THEN Printed("", "deque([" \o children \o "])")
            ELSE Printed("", "deque([" \o children \o "], maxlen="
                                \o PyToStr(node.node_data) \o ")")
      [] node.kind = "Dict" ->
            IF Len(node.node_data.ks) # node.arity
            THEN Printed("InternalError: keys and entries", "")
            ELSE Printed("", "{" \o NamedChildren([i \in 1..node.arity |->
                                                      PyRepr(node.node_data.ks[i])],
                                                  strings, "", ": ", "") \o "}")
      [] node.kind = "NamedTuple" ->
            IF Len(FieldNames(node.node_data.s)) # node.arity
            THEN Printed("InternalError: fields and entries", "")
            ELSE Printed("", node.node_data.s \o "("
                                \o NamedChildren(FieldNames(node.node_data.s),
                                                  strings, "", "=", "") \o ")")
      [] node.kind = "OrderedDict" ->
            IF Len(node.node_data.ks) # node.arity
            THEN Printed("InternalError: keys and entries", "")
            ELSE Printed("", "OrderedDict([" \o NamedChildren([i \in 1..node.arity |->
                                                      PyRepr(node.node_data.ks[i])],
                                                  strings, "(", ", ", ")") \o "])")
      [] node.kind = "DefaultDict" ->
            IF node.node_data.t # "tuple"
            THEN Printed("InternalError: auxiliary data", "")
            ELSE IF Len(node.node_data.ks) # node.arity
            THEN Printed("InternalError: keys and entries", "")
            ELSE Printed("", "defaultdict(" \o PyRepr(PyType(node.node_data.s)) \o ", {"
                                \o NamedChildren([i \in 1..node.arity |->
                                                      PyRepr(node.node_data.ks[i])],
                                                  strings, "", ": ", "") \o "})")
      [] node.kind = "StructSequence" ->
            Printed("", "os." \o node.node_data.s \o "("
                           \o NamedChildren(SubSeq(FieldNames(node.node_data.s), 1, node.arity),
                                             strings, "", "=", "") \o ")")
      [] node.kind = "Custom" ->
            Printed("", "CustomTreeNode(" \o node.custom.type
                           \o (IF IsSet(node.node_data)
                               THEN "[" \o PyRepr(node.node_data) \o "]" ELSE "")
                           \o ", [" \o children \o "])")
      [] OTHER -> Printed("InternalError: unknown kind", "")

RECURSIVE ToStringLoop(_, _, _)
\* The loop of ToString over the traversal from node i on; agenda is the
\* stack of the strings of the subtrees printed.
ToStringLoop(t, i, agenda) ==
    IF i > Len(t.traversal)
    THEN IF Len(agenda) # 1
         THEN Printed("InternalError: did not yield a singleton", "")
         ELSE Printed("", "PyTreeSpec(" \o agenda[Len(agenda)]
                            \o (IF t.none_is_leaf THEN ", NoneIsLeaf" ELSE "")
                            \o (IF t.namespace = "" THEN ""
                                ELSE ", namespace=" \o PyRepr(PyStr(t.namespace)))
                            \o ")")
    ELSE LET node == t.traversal[i] IN
         IF Len(agenda) < node.arity
         THEN Printed("InternalError: too few elements", "")
         ELSE IF node.kind = "Leaf" THEN ToStringLoop(t, i + 1, Append(agenda, "*"))
         ELSE LET size == Len(agenda)
                  r == Representation(node, SubSeq(agenda, size - node.arity + 1, size))
              IN IF r.err # "" THEN r
                 ELSE ToStringLoop(t, i + 1,
                          Append(SubSeq(agenda, 1, size - node.arity), r.str))

\* PyTreeSpec::ToString()
ToString(t) == ToStringLoop(t, 1, <<>>)

(***************************************************************************)
(* The state machine.  registry holds the user registrations (type,        *)
(* namespace); a is a spec the caller holds; last records the call in      *)
(* progress: its operands and what it returned or threw.  The caller makes *)
(* a call, then keeps a spec it returned (in place of a) or drops the      *)
(* result, and makes the next call.                                        *)
(***************************************************************************)
\* The classes a caller registers and the namespaces it uses.
UserTypes == {"T"}

Namespaces == {"", "ns"}

NoCall ==
    [op |-> "", x |-> EmptySpec, y |-> EmptySpec, xs |-> <<>>, nil |-> FALSE,
     ns |-> "", type |-> "", strict |-> FALSE, tree |-> NoneVal, leaves |-> <<>>,
     out |-> EmptySpec, outs |-> <<>>, err |-> "", flag |-> FALSE,
     hx |-> Hash(EmptySpec), hy |-> Hash(EmptySpec),
     pk |-> Picklable(0, <<>>, FALSE, ""), val |-> NoneVal, str |-> "",
     full |-> NoneVal]

\* The values the caller flattens to obtain specs with node_data and
\* custom nodes.
SmallTrees ==
    {DictVal(<<Key("str", 1)>>, <<IntVal(1)>>),
     ObjectVal("T", PyInt(7), <<IntVal(1)>>)}

\* The calls of flatten the caller makes: a namespace is passed only for a
\* tree in which it resolves a custom node.
FlattenCalls ==
    {c \in [tree : SmallTrees, nil : BOOLEAN, ns : Namespaces] :
        \/ c.ns = ""
        \/ \E n \in {FlattenInto(c.tree, c.nil, c.ns).traversal[i] :
                       i \in 1..Len(FlattenInto(c.tree, c.nil, c.ns).traversal)} :
              n.kind = "Custom"}

\* The specs the caller makes on the spot to pass as the other operand of a
\* call: the results of leaf, none and flatten.
Fresh ==
    {Leaf(nil) : nil \in BOOLEAN} \cup {None(nil) : nil \in BOOLEAN}
    \cup {Flatten(c.tree, c.nil, c.ns).spec : c \in FlattenCalls}

RECURSIVE SeqsUpTo(_, _)
\* The sequences of at most n elements of S.
SeqsUpTo(S, n) ==
    IF n = 0 THEN {<<>>}
    ELSE LET shorter == SeqsUpTo(S, n - 1) IN
         shorter \cup {Append(q, e) : q \in shorter, e \in S}

Init ==
    /\ registry = {}
    /\ a = Leaf(FALSE)
    /\ last = NoCall

\* register_node(cls, to_iterable, from_iterable, namespace)
CallRegister ==
    /\ last = NoCall
    /\ \E type \in UserTypes, ns \in Namespaces :
        LET r == [type |-> type, namespace |-> ns] IN
        /\ registry' = registry \cup {r}
        /\ last' = [NoCall EXCEPT !.op = "register", !.type = type, !.ns = ns,
                                  !.err = IF r \in registry
                                          THEN "ValueError: already registered"
                                          ELSE ""]
        /\ UNCHANGED a

\* flatten(tree, none_is_leaf=nil, namespace=ns)
CallFlatten ==
    /\ last = NoCall
    /\ \E c \in FlattenCalls :
        LET f == Flatten(c.tree, c.nil, c.ns) IN
        /\ last' = [NoCall EXCEPT !.op = "flatten", !.tree = c.tree, !.nil = c.nil,
                                  !.ns = c.ns, !.leaves = f.leaves, !.out = f.spec]
        /\ UNCHANGED <<registry, a>>

\* leaf(none_is_leaf=nil)
CallLeaf ==
    /\ last = NoCall
    /\ \E nil \in BOOLEAN :
        /\ last' = [NoCall EXCEPT !.op = "leaf", !.nil = nil, !.out = Leaf(nil)]
        /\ UNCHANGED <<registry, a>>

\* none(none_is_leaf=nil)
CallNone ==
    /\ last = NoCall
    /\ \E nil \in BOOLEAN :
        /\ last' = [NoCall EXCEPT !.op = "none", !.nil = nil, !.out = None(nil)]
        /\ UNCHANGED <<registry, a>>

\* tuple(treespecs, none_is_leaf=nil), of a and one other spec
CallTuple ==
    /\ last = NoCall
    /\ \E f \in Fresh, nil \in BOOLEAN :
        \E xs \in SeqsUpTo({a, f}, MaxTupleArity) :
            LET r == Tuple(xs, nil) IN
            /\ last' = [NoCall EXCEPT !.op = "tuple", !.xs = xs, !.nil = nil,
                                      !.out = r.spec, !.err = r.err]
            /\ UNCHANGED <<registry, a>>

\* The pairs of operands of a binary call: a and a spec made on the spot,
\* either way round, or a twice.
OperandPairs == {<<a, a>>} \cup {<<a, f>> : f \in Fresh} \cup {<<f, a>> : f \in Fresh}

\* x.compose(y) composing in place: the spec the caller holds becomes the
\* result whenever it is an operand (a faulty variant of CallCompose).
CallComposeInPlace ==
    /\ last = NoCall
    /\ \E p \in OperandPairs :
        LET r == Compose(p[1], p[2]) IN
        /\ last' = [NoCall EXCEPT !.op = "compose", !.x = p[1], !.y = p[2],
                                  !.out = r.spec, !.err = r.err]
        /\ a' = IF r.err = "" /\ Len(r.spec.traversal) <= MaxNodes THEN r.spec ELSE a
        /\ UNCHANGED registry

\* x.compose(y)
CallCompose ==
    /\ last = NoCall
    /\ \E p \in OperandPairs :
        LET r == Compose(p[1], p[2]) IN
        /\ last' = [NoCall EXCEPT !.op = "compose", !.x = p[1], !.y = p[2],
                                  !.out = r.spec, !.err = r.err]
        /\ UNCHANGED <<registry, a>>

\* a.children()
CallChildren ==
    /\ last = NoCall
    /\ LET r == Children(a) IN
        /\ last' = [NoCall EXCEPT !.op = "children", !.x = a,
                                  !.outs = r.specs, !.err = r.err]
        /\ UNCHANGED <<registry, a>>

\* a.is_leaf(strict)
CallIsLeaf ==
    /\ last = NoCall
    /\ \E strict \in BOOLEAN :
        /\ last' = [NoCall EXCEPT !.op = "is_leaf", !.x = a, !.strict = strict,
                                  !.flag = is_leaf(a, strict)]
        /\ UNCHANGED <<registry, a>>

\* x == y
CallEqual ==
    /\ last = NoCall
    /\ \E p \in OperandPairs :
        LET r == Equal(p[1], p[2]) IN
        /\ last' = [NoCall EXCEPT !.op = "eq", !.x = p[1], !.y = p[2],
                                  !.flag = r.flag, !.err = r.err]
        /\ UNCHANGED <<registry, a>>

\* x != y
CallNotEqual ==
    /\ last = NoCall
    /\ \E p \in OperandPairs :
        LET r == NotEqual(p[1], p[2]) IN
        /\ last' = [NoCall EXCEPT !.op = "ne", !.x = p[1], !.y = p[2],
                                  !.flag = r.flag, !.err = r.err]
        /\ UNCHANGED <<registry, a>>

\* hash(x), hash(y)
CallHash ==
    /\ last = NoCall
    /\ \E p \in OperandPairs :
        /\ last' = [NoCall EXCEPT !.op = "hash", !.x = p[1], !.y = p[2],
                                  !.hx = Hash(p[1]), !.hy = Hash(p[2])]
        /\ UNCHANGED <<registry, a>>

\* pickle.loads(pickle.dumps(a)): __getstate__, then __setstate__
CallPickle ==
    /\ last = NoCall
    /\ LET pk == ToPicklable(a)
           r == FromPicklable(pk)
       IN /\ last' = [NoCall EXCEPT !.op = "pickle", !.x = a, !.pk = pk,
                                    !.out = r.spec, !.err = r.err]
          /\ UNCHANGED <<registry, a>>

\* str(treespec), of the spec the call in progress returned
CallToString ==
    /\ last.op \in {"flatten", "compose"}
    /\ last.err = ""
    /\ LET r == ToString(last.out) IN
        last' = [last EXCEPT !.op = "str", !.str = r.str, !.err = r.err]
    /\ UNCHANGED <<registry, a>>

\* The specs the call in progress returned.
Results ==
    IF last.err # "" THEN {}
    ELSE IF last.op \in {"flatten", "leaf", "none", "tuple", "compose", "pickle"}
    THEN {last.out}
    ELSE IF last.op = "children" THEN {last.outs[i] : i \in 1..Len(last.outs)}
    ELSE {}

\* The caller keeps a spec the call returned, in place of a.
Keep ==
    /\ last # NoCall
    /\ \E s \in Results :
        /\ Len(s.traversal) <= MaxNodes
        /\ a' = s
    /\ last' = NoCall
    /\ UNCHANGED registry

\* The caller drops what the call returned.
Drop ==
    /\ last # NoCall
    /\ last' = NoCall
    /\ UNCHANGED <<registry, a>>

Next ==
    \/ CallRegister
    \/ CallFlatten
    \/ CallLeaf
    \/ CallNone
    \/ CallTuple
    \/ CallCompose
    \/ CallChildren
    \/ CallIsLeaf
    \/ CallEqual
    \/ CallNotEqual
    \/ CallHash
    \/ CallPickle
    \/ CallToString
    \/ Keep
    \/ Drop

Spec == Init /\ [][Next]_vars

(***************************************************************************)
(* The round trip of values: flatten a value, then unflatten the leaves    *)
(* with the spec.                                                          *)
(***************************************************************************)
\* A container of the values flattened has at most this many children.
MaxItems == 2

\* The children of the values flattened: leaves, None and containers.
Elems ==
    {IntVal(1), IntVal(2), NoneVal, TupleVal(<<>>),
     DictVal(<<Key("str", 2), Key("str", 1)>>, <<IntVal(1), NoneVal>>),
     DequeVal(<<IntVal(2)>>, PyInt(1))}

\* The keys of the mappings flattened.
ElemKeys == {Key("str", 1), Key("str", 2), Key("int", 1)}

\* The lists of distinct keys, as long as the list of items.
KeyLists(items) ==
    {ks \in SeqsUpTo(ElemKeys, Len(items)) :
        /\ Len(ks) = Len(items)
        /\ \A i, j \in 1..Len(ks) : i # j => ks[i] # ks[j]}

\* The values flattened: the children, and each built-in container of them.
Trees ==
    Elems
    \cup UNION {
        {TupleVal(items), ListVal(items), DequeVal(items, PyNone),
         DequeVal(items, PyInt(1))}
        \cup UNION {
            {DictVal(ks, items), OrderedDictVal(ks, items),
             DefaultDictVal("list", ks, items)} : ks \in KeyLists(items)}
        : items \in SeqsUpTo(Elems, MaxItems)}

\* leaves, treespec = flatten(tree, none_is_leaf=nil)
CallFlattenValue ==
    /\ last = NoCall
    /\ \E tree \in Trees, nil \in BOOLEAN :
        LET f == Flatten(tree, nil, "") IN
        /\ last' = [NoCall EXCEPT !.op = "flatten", !.tree = tree, !.nil = nil,
                                  !.leaves = f.leaves, !.out = f.spec]
        /\ UNCHANGED <<registry, a>>

\* treespec.unflatten(leaves), of what the flatten in progress returned
CallUnflatten ==
    /\ last.op = "flatten"
    /\ LET r == Unflatten(last.out, last.leaves) IN
        last' = [last EXCEPT !.op = "unflatten", !.val = r.val, !.err = r.err]
    /\ UNCHANGED <<registry, a>>

\* The lists of leaves the caller passes with the spec a flatten returned:
\* the leaves it returned, each shorter list of them, and one leaf more.
LeafLists(leaves) ==
    {SubSeq(leaves, 1, n) : n \in 0..Len(leaves)} \cup {Append(leaves, IntVal(1))}

\* treespec.unflatten(leaves), of the spec the flatten in progress returned
\* and a list of leaves of any length
CallUnflattenLeaves ==
    /\ last.op = "flatten"
    /\ \E leaves \in LeafLists(last.leaves) :
        LET r == Unflatten(last.out, leaves) IN
        last' = [last EXCEPT !.op = "unflatten_leaves", !.leaves = leaves,
                             !.val = r.val, !.err = r.err]
    /\ UNCHANGED <<registry, a>>

NextFlatten ==
    \/ CallFlattenValue
    \/ CallUnflatten
    \/ CallUnflattenLeaves
    \/ Drop

SpecFlatten == Init /\ [][NextFlatten]_vars

(***************************************************************************)
(* Flattening mappings: the same pairs inserted in every order, with keys  *)
(* that sort, keys of mixed types and keys no order is defined on.         *)
(***************************************************************************)
\* A mapping flattened has at most this many keys.
MaxKeys == 2

\* The keys of the mappings: two str, an int, and two instances of a
\* user-defined class without __lt__.
DictKeys == ElemKeys \cup {Key("K", 1), Key("K", 2)}

\* The values of the mappings.
DictItems == {IntVal(4), IntVal(5), NoneVal}

\* The mappings flattened: each list of distinct keys with each list of as
\* many values, as a dict, an OrderedDict and a defaultdict.
Dicts ==
    UNION {
        {DictVal(p.ks, p.items), OrderedDictVal(p.ks, p.items),
         DefaultDictVal("list", p.ks, p.items)} :
        p \in {p \in [ks : SeqsUpTo(DictKeys, MaxKeys),
                       items : SeqsUpTo(DictItems, MaxKeys)] :
                  /\ Len(p.ks) = Len(p.items)
                  /\ \A i, j \in 1..Len(p.ks) : i # j => p.ks[i] # p.ks[j]}}

\* leaves, treespec = flatten(mapping, none_is_leaf=nil)
CallFlattenDict ==
    /\ last = NoCall
    /\ \E tree \in Dicts, nil \in BOOLEAN :
        LET f == Flatten(tree, nil, "") IN
        /\ last' = [NoCall EXCEPT !.op = "flatten", !.tree = tree, !.nil = nil,
                                  !.leaves = f.leaves, !.out = f.spec]
        /\ UNCHANGED <<registry, a>>

\* SortedDictKeys is called on dicts of at most this many keys.
MaxSortKeys == 4

\* keys = SortedDictKeys(dict), the first step of flattening a dict, of a
\* dict whose keys may be instances of E as well
CallSortedDictKeys ==
    /\ last = NoCall
    /\ \E ks \in SeqsUpTo(DictKeys \cup {Key("E", 1), Key("E", 2)}, MaxSortKeys) :
        /\ \A i, j \in 1..Len(ks) : i # j => ks[i] # ks[j]
        /\ LET r == TotalOrderSortOutcome(ks) IN
            last' = [NoCall EXCEPT !.op = "sorted_keys",
                                   !.tree = DictVal(ks, [i \in 1..Len(ks) |-> NoneVal]),
                                   !.val = Val("list", 0, NullObj, r.keys, <<>>),
                                   !.err = r.err]
    /\ UNCHANGED <<registry, a>>

NextDicts ==
    \/ CallFlattenDict
    \/ CallSortedDictKeys
    \/ CallUnflatten
    \/ Drop

SpecDicts == Init /\ [][NextDicts]_vars

(***************************************************************************)
(* Flattening a value up to a spec: the caller flattens a value to obtain  *)
(* a spec, then calls flatten_up_to of that spec on a second value: the    *)
(* first value with its leaves replaced by whole values, or with the type, *)
(* the length, a key or the maxlen of a container changed.                 *)
(***************************************************************************)
\* A container of the values flattened to a prefix spec has at most this
\* many children.
MaxPrefixItems == 2

\* The children of the values flattened to a prefix spec.
PrefixElems ==
    {IntVal(1), IntVal(3), NoneVal, TupleVal(<<IntVal(1), IntVal(2)>>),
     DequeVal(<<IntVal(1)>>, PyInt(2))}

\* The values flattened to a prefix spec: the children, and tuples, lists
\* and dicts of them.
PrefixTrees ==
    PrefixElems
    \cup UNION {
        {TupleVal(items), ListVal(items)}
        \cup {DictVal(ks, items) :
                ks \in {q \in SeqsUpTo({Key("str", 1), Key("str", 2)}, Len(items)) :
                          /\ Len(q) = Len(items)
                          /\ \A i, j \in 1..Len(q) : i # j => q[i] # q[j]}}
        : items \in SeqsUpTo(PrefixElems, MaxPrefixItems)}

\* The whole values found at the leaves of a prefix.
SubValues ==
    {IntVal(1), TupleVal(<<IntVal(2), IntVal(3)>>),
     DictVal(<<Key("str", 1)>>, <<IntVal(4)>>)}

RECURSIVE Grown(_, _)
\* The value w with each int leaf x replaced by the value f[x].
Grown(w, f) ==
    IF w.ty = "int" THEN f[w.x]
    ELSE [w EXCEPT !.items = [i \in 1..Len(w.items) |-> Grown(w.items[i], f)]]

\* The values that differ from the container w at its root: another type,
\* a child more or less, another key, another maxlen; and from None: a leaf.
Changed(w) ==
    CASE w.ty = "tuple" ->
            {[w EXCEPT !.ty = "list"], [w EXCEPT !.items = Append(w.items, IntVal(1))]}
            \cup (IF w.items = <<>> THEN {} ELSE {[w EXCEPT !.items = Tail(w.items)]})
      [] w.ty = "list" -> {[w EXCEPT !.ty = "tuple"], IntVal(1)}
      [] w.ty = "deque" -> {[w EXCEPT !.aux = PyNone], [w EXCEPT !.aux = PyInt(3)]}
      [] w.ty = "dict" ->
            IF w.keys = <<>> THEN {DictVal(<<Key("str", 1)>>, <<IntVal(1)>>)}
            ELSE {[w EXCEPT !.keys[1] = Key("int", 1)], [w EXCEPT !.ty = "OrderedDict"],
                  DictVal(Tail(w.keys), Tail(w.items))}
      [] w.ty = "NoneType" -> {IntVal(1), TupleVal(<<>>)}
      [] OTHER -> {}

\* The second values for the value w: w with its leaves replaced by whole
\* values, and w changed at the root or at the root of a child.
FullTrees(w) ==
    {Grown(w, f) : f \in [1..3 -> SubValues]}
    \cup Changed(w)
    \cup UNION {{[w EXCEPT !.items[i] = c] : c \in Changed(w.items[i])} :
                 i \in 1..Len(w.items)}

\* treespec = flatten(tree, none_is_leaf=nil)[1];
\* treespec.flatten_up_to(full_tree)
CallFlattenUpTo ==
    /\ last = NoCall
    /\ \E tree \in PrefixTrees, nil \in BOOLEAN :
        \E full_tree \in FullTrees(tree) :
            LET treespec == Flatten(tree, nil, "").spec
                r == FlattenUpTo(treespec, full_tree)
            IN /\ last' = [NoCall EXCEPT !.op = "flatten_up_to", !.tree = tree,
                                         !.nil = nil, !.out = treespec,
                                         !.full = full_tree, !.leaves = r.leaves,
                                         !.err = r.err]
               /\ UNCHANGED <<registry, a>>

\* treespec.unflatten(leaves), of the sub-values flatten_up_to returned
CallUnflattenUpTo ==
    /\ last.op = "flatten_up_to"
    /\ last.err = ""
    /\ LET r == Unflatten(last.out, last.leaves) IN
        last' = [last EXCEPT !.op = "unflatten_up_to", !.val = r.val, !.err = r.err]
    /\ UNCHANGED <<registry, a>>

NextUpTo ==
    \/ CallFlattenUpTo
    \/ CallUnflattenUpTo
    \/ Drop

SpecUpTo == Init /\ [][NextUpTo]_vars

(***************************************************************************)
(* Printing: the caller registers a class, flattens values of every kind   *)
(* of node, keeps a spec or composes the spec it keeps with another, and   *)
(* prints what a call returned.                                            *)
(***************************************************************************)
\* The values flattened to the specs printed.
PrintTrees ==
    {IntVal(0), NoneVal, TupleVal(<<>>), TupleVal(<<IntVal(0)>>),
     TupleVal(<<IntVal(0), IntVal(0)>>), ListVal(<<IntVal(0), IntVal(0)>>),
     ListVal(<<NoneVal, TupleVal(<<IntVal(0)>>)>>),
     DictVal(<<Key("str", 2), Key("str", 1)>>, <<IntVal(4), IntVal(5)>>),
     DictVal(<<Key("str", 1), Key("int", 1)>>, <<ListVal(<<>>), IntVal(0)>>),
     OrderedDictVal(<<Key("str", 2), Key("str", 1)>>, <<IntVal(4), IntVal(5)>>),
     DefaultDictVal("list", <<Key("str", 1)>>, <<IntVal(0)>>),
     DequeVal(<<IntVal(0)>>, PyNone), DequeVal(<<IntVal(0)>>, PyInt(2)),
     ObjectVal("Point", NullObj, <<IntVal(0), IntVal(0)>>),
     ObjectVal("stat_result", NullObj, <<IntVal(0), IntVal(0)>>),
     ObjectVal("T", PyInt(7), <<IntVal(0)>>)}

\* The calls of flatten: a namespace is passed only for a tree in which it
\* resolves a custom node.
PrintCalls ==
    {c \in [tree : PrintTrees, nil : BOOLEAN, ns : Namespaces] :
        \/ c.ns = ""
        \/ \E n \in {FlattenInto(c.tree, c.nil, c.ns).traversal[i] :
                       i \in 1..Len(FlattenInto(c.tree, c.nil, c.ns).traversal)} :
              n.kind = "Custom"}

\* flatten(tree, none_is_leaf=nil, namespace=ns)
CallFlattenPrint ==
    /\ last = NoCall
    /\ \E c \in PrintCalls :
        LET f == Flatten(c.tree, c.nil, c.ns) IN
        /\ last' = [NoCall EXCEPT !.op = "flatten", !.tree = c.tree, !.nil = c.nil,
                                  !.ns = c.ns, !.leaves = f.leaves, !.out = f.spec]
        /\ UNCHANGED <<registry, a>>

\* a.compose(flatten(tree, none_is_leaf=nil, namespace=ns)[1])
CallComposePrint ==
    /\ last = NoCall
    /\ \E c \in PrintCalls :
        LET y == Flatten(c.tree, c.nil, c.ns).spec
            r == Compose(a, y)
        IN /\ last' = [NoCall EXCEPT !.op = "compose", !.x = a, !.y = y,
                                     !.out = r.spec, !.err = r.err]
           /\ UNCHANGED <<registry, a>>

NextPrint ==
    \/ CallRegister
    \/ CallFlattenPrint
    \/ CallComposePrint
    \/ CallToString
    \/ Keep
    \/ Drop

SpecPrint == Init /\ [][NextPrint]_vars

(***************************************************************************)
(* Classifying objects: the caller registers classes, a namedtuple class   *)
(* among them, and flattens values of every kind.                          *)
(***************************************************************************)
\* register_node(cls, to_iterable, from_iterable, namespace), of the class T
\* or of the namedtuple class Point
CallRegisterClass ==
    /\ last = NoCall
    /\ \E type \in UserTypes \cup NamedTupleTypes, ns \in Namespaces :
        LET r == [type |-> type, namespace |-> ns] IN
        /\ registry' = registry \cup {r}
        /\ last' = [NoCall EXCEPT !.op = "register", !.type = type, !.ns = ns,
                                  !.err = IF r \in registry
                                          THEN "ValueError: already registered"
                                          ELSE ""]
        /\ UNCHANGED a

NextKinds ==
    \/ CallRegisterClass
    \/ CallFlattenPrint
    \/ Drop

SpecKinds == Init /\ [][NextKinds]_vars

(***************************************************************************)
(* Decoding picklables that no ToPicklable made.                           *)
(***************************************************************************)
\* The node_states of a picklable decoded has at most this many node states.
MaxNodeStates == 2

\* The node state of a Leaf node, as ToPicklable makes it.
LeafState == NodeState(Leaf(FALSE).traversal[1])

\* A node state of kind, with no children and nothing else set.
BareState(kind) ==
    <<PyInt(KindOrdinal(kind)), PyInt(0), PyNone, PyNone, PyNone, PyInt(0), PyInt(1)>>

\* The node state of a Custom node of the class type, with one Leaf child.
CustomState(type) ==
    <<PyInt(KindOrdinal("Custom")), PyInt(1), PyInt(7), PyNone, type, PyInt(1), PyInt(2)>>

\* The node states of the picklables decoded: sound ones, and ones with a
\* defect.
NodeStates ==
    {LeafState,
     [BareState("Dict") EXCEPT ![3] = PyList(<<>>)],
     CustomState(PyType("T")),
     CustomState(PyNone),
     [CustomState(PyType("T")) EXCEPT ![4] = PyInt(1)],
     SubSeq(LeafState, 1, 6),
     [LeafState EXCEPT ![3] = PyInt(7)],
     [BareState("List") EXCEPT ![3] = PyInt(7)],
     [BareState("Tuple") EXCEPT ![4] = PyPair("", <<>>)],
     [LeafState EXCEPT ![5] = PyType("T")],
     [BareState("Dict") EXCEPT ![4] = PyPair("", <<>>)],
     [LeafState EXCEPT ![1] = PyInt(Len(PyTreeKind))],
     [LeafState EXCEPT ![1] = PyStr("Leaf")]}

\* The picklables decoded: an outer tuple of the wrong size, and the outer
\* tuples (node_states, none_is_leaf, namespace).
Picklables ==
    {Picklable(2, <<>>, FALSE, "")}
    \cup {Picklable(3, nodes, nil, ns) :
            nodes \in SeqsUpTo(NodeStates, MaxNodeStates),
            nil \in BOOLEAN, ns \in Namespaces}

\* PyTreeSpec.__setstate__(pk)
CallFromPicklable ==
    /\ last = NoCall
    /\ \E pk \in Picklables :
        LET r == FromPicklable(pk) IN
        /\ last' = [NoCall EXCEPT !.op = "decode", !.pk = pk,
                                  !.out = r.spec, !.err = r.err]
        /\ UNCHANGED <<registry, a>>

NextCodec ==
    \/ CallRegister
    \/ CallFromPicklable
    \/ Drop

SpecCodec == Init /\ [][NextCodec]_vars

(***************************************************************************)
(* Combining specs of several namespaces: the caller registers a class in  *)
(* up to three namespaces, and composes or tuples specs made on the spot.  *)
(***************************************************************************)
\* tuple is called with at most this many children.
MaxChildren == 3

\* The namespaces the class is registered in.
CombineNamespaces == {"", "ns", "n2"}

\* register_node(cls, to_iterable, from_iterable, namespace)
CallRegisterIn ==
    /\ last = NoCall
    /\ \E type \in UserTypes, ns \in CombineNamespaces :
        LET r == [type |-> type, namespace |-> ns] IN
        /\ registry' = registry \cup {r}
        /\ last' = [NoCall EXCEPT !.op = "register", !.type = type, !.ns = ns,
                                  !.err = IF r \in registry
                                          THEN "ValueError: already registered"
                                          ELSE ""]
        /\ UNCHANGED a

\* The specs combined: the results of leaf and none, and of flatten of an
\* object of the class with a namespace in which the class is registered.
Operands ==
    {Leaf(nil) : nil \in BOOLEAN} \cup {None(nil) : nil \in BOOLEAN}
    \cup {Flatten(ObjectVal(r.type, PyInt(7), <<IntVal(1)>>), nil, r.namespace).spec :
            r \in registry, nil \in BOOLEAN}

\* tuple(treespecs, none_is_leaf=nil)
CallTupleOf ==
    /\ last = NoCall
    /\ \E xs \in SeqsUpTo(Operands, MaxChildren), nil \in BOOLEAN :
        LET r == Tuple(xs, nil) IN
        /\ last' = [NoCall EXCEPT !.op = "tuple", !.xs = xs, !.nil = nil,
                                  !.out = r.spec, !.err = r.err]
        /\ UNCHANGED <<registry, a>>

\* x.compose(y)
CallComposeOf ==
    /\ last = NoCall
    /\ \E x \in Operands, y \in Operands :
        LET r == Compose(x, y) IN
        /\ last' = [NoCall EXCEPT !.op = "compose", !.x = x, !.y = y,
                                  !.out = r.spec, !.err = r.err]
        /\ UNCHANGED <<registry, a>>

\* The specs compared and hashed: the specs combined, and the specs flatten
\* returns for objects of the class with either auxiliary data, under each
\* namespace, whether the class is registered in it or not.
ComparedSpecs ==
    Operands
    \cup {Flatten(ObjectVal(type, data, <<IntVal(1)>>), nil, ns).spec :
            type \in UserTypes, data \in {PyInt(7), PyInt(8)},
            nil \in BOOLEAN, ns \in CombineNamespaces}

\* x == y
CallEqualOf ==
    /\ last = NoCall
    /\ \E x \in ComparedSpecs, y \in ComparedSpecs :
        LET r == Equal(x, y) IN
        /\ last' = [NoCall EXCEPT !.op = "eq", !.x = x, !.y = y,
                                  !.flag = r.flag, !.err = r.err]
        /\ UNCHANGED <<registry, a>>

\* hash(x), hash(y)
CallHashOf ==
    /\ last = NoCall
    /\ \E x \in ComparedSpecs, y \in ComparedSpecs :
        /\ last' = [NoCall EXCEPT !.op = "hash", !.x = x, !.y = y,
                                  !.hx = Hash(x), !.hy = Hash(y)]
        /\ UNCHANGED <<registry, a>>

NextCombine ==
    \/ CallRegisterIn
    \/ CallTupleOf
    \/ CallComposeOf
    \/ CallEqualOf
    \/ CallHashOf
    \/ Drop

SpecCombine == Init /\ [][NextCombine]_vars

(***************************************************************************)
(* Properties.                                                             *)
(***************************************************************************)
RECURSIVE ValueEqual(_, _)
\* Python's == on two values, with the maxlen of a deque and the
\* default_factory of a defaultdict compared too: the same type at every
\* position, the same leaves, the same keys; the order of the keys counts
\* for an OrderedDict only.
ValueEqual(v, w) ==
    /\ v.ty = w.ty
    /\ v.x = w.x
    /\ v.aux = w.aux
    /\ Len(v.items) = Len(w.items)
    /\ IF v.ty \in {"dict", "defaultdict"}
       THEN /\ {v.keys[i] : i \in 1..Len(v.keys)} = {w.keys[i] : i \in 1..Len(w.keys)}
            /\ \A i \in 1..Len(v.keys) :
                  ValueEqual(v.items[i], GetItem(w, v.keys[i]))
       ELSE /\ v.keys = w.keys
            /\ \A i \in 1..Len(v.items) : ValueEqual(v.items[i], w.items[i])

\* C1: the value that unflatten builds from the leaves and the spec that
\* flatten returned is equal to the value flattened, for every value built
\* of leaves, None and the built-in containers and for both none_is_leaf
\* modes.
C1_RoundTrip ==
    last.op = "unflatten" => last.err = "" /\ ValueEqual(last.val, last.tree)

\* A defaultdict whose keys were inserted out of their sorted order and a
\* bounded deque among its items has made the round trip.
C1_Witness ==
    /\ last.op = "unflatten"
    /\ last.tree.ty = "defaultdict"
    /\ Len(last.tree.keys) = 2
    /\ last.tree.keys # SortedDictKeys(last.tree)
    /\ \E i \in 1..Len(last.tree.items) : last.tree.items[i].ty = "deque"
    /\ last.val.ty = "defaultdict"

\* The operands of a compose have the same none_is_leaf and namespaces that
\* are equal or of which one is empty.
Composable(x, y) ==
    /\ x.none_is_leaf = y.none_is_leaf
    /\ (x.namespace = "" \/ y.namespace = "" \/ x.namespace = y.namespace)

\* C2: for operands with the same none_is_leaf and compatible namespaces,
\* compose throws nothing (the two count assertions hold) and the root of
\* the result has num_leaves = outer.num_leaves * inner.num_leaves and
\* num_nodes = (outer.num_nodes - outer.num_leaves) + outer.num_leaves *
\* inner.num_nodes, which is the length of the result's traversal.
C2_ComposeCounts ==
    (last.op = "compose" /\ Composable(last.x, last.y)) =>
        /\ last.err = ""
        /\ Back(last.out).num_leaves = num_leaves(last.x) * num_leaves(last.y)
        /\ Back(last.out).num_nodes =
              (num_nodes(last.x) - num_leaves(last.x))
              + num_leaves(last.x) * num_nodes(last.y)
        /\ Back(last.out).num_nodes = Len(last.out.traversal)

\* A spec of two leaves has been composed with a spec of two leaves.
C2_Witness ==
    /\ last.op = "compose"
    /\ last.err = ""
    /\ num_leaves(last.x) = 2
    /\ num_leaves(last.y) = 2
    /\ num_leaves(last.out) = 4

\* The number of nodes the first i - 1 nodes of outer become in
\* outer.compose(inner).
ComposedBefore(outer, inner, i) ==
    (i - 1) + (num_nodes(inner) - 1)
              * Cardinality({j \in 1..(i - 1) : outer.traversal[j].kind = "Leaf"})

\* C3: the traversal of outer.compose(inner) is outer's traversal in order
\* with every Leaf node replaced in place by the whole of inner's traversal
\* and every other node (None nodes too) kept with its kind, arity,
\* node_data, node_entries and custom and with num_leaves multiplied by
\* inner.num_leaves and num_nodes = (num_nodes - num_leaves) + num_leaves *
\* inner.num_nodes.
C3_ComposeSubstitution ==
    (last.op = "compose" /\ last.err = "") =>
        LET outer == last.x
            inner == last.y
            result == last.out.traversal
        IN /\ Len(result) = ComposedBefore(outer, inner, Len(outer.traversal) + 1)
           /\ \A i \in 1..Len(outer.traversal) :
                LET node == outer.traversal[i]
                    at == ComposedBefore(outer, inner, i)
                IN IF node.kind = "Leaf"
                   THEN SubSeq(result, at + 1, at + num_nodes(inner)) = inner.traversal
                   ELSE result[at + 1] =
                          [node EXCEPT
                             !.num_leaves = node.num_leaves * num_leaves(inner),
                             !.num_nodes = (node.num_nodes - node.num_leaves)
                                           + node.num_leaves * num_nodes(inner)]

\* A spec with a None node, a Leaf node and a root above them has been
\* composed with a spec of more than one node.
C3_Witness ==
    /\ last.op = "compose"
    /\ last.err = ""
    /\ Len(last.x.traversal) = 3
    /\ last.x.traversal[1].kind = "None"
    /\ last.x.traversal[2].kind = "Leaf"
    /\ num_nodes(last.y) = 2
    /\ Len(last.out.traversal) = 4

\* What equality is said to be: the same length, the same none_is_leaf,
\* namespaces equal or one of them empty, and at each index the same kind,
\* arity and custom registration and node_data absent in both or present
\* in both and equal.
SameSpec(x, y) ==
    /\ Len(x.traversal) = Len(y.traversal)
    /\ x.none_is_leaf = y.none_is_leaf
    /\ (x.namespace = y.namespace \/ x.namespace = "" \/ y.namespace = "")
    /\ \A i \in 1..Len(x.traversal) :
        LET na == x.traversal[i]
            nb == y.traversal[i]
        IN /\ na.kind = nb.kind
           /\ na.arity = nb.arity
           /\ na.custom = nb.custom
           /\ \/ ~IsSet(na.node_data) /\ ~IsSet(nb.node_data)
              \/ IsSet(na.node_data) /\ IsSet(nb.node_data)
                 /\ na.node_data = nb.node_data

\* C4: x == y returns true exactly when the traversals have the same
\* length, none_is_leaf is the same, the namespaces are equal or one is
\* empty and the nodes match pairwise in kind, arity, custom and node_data;
\* x != y returns the negation.
C4_EqualityDefinition ==
    /\ last.op = "eq" => last.err = "" /\ (last.flag <=> SameSpec(last.x, last.y))
    /\ last.op = "ne" => last.err = "" /\ (last.flag <=> ~SameSpec(last.x, last.y))

\* Two specs with a Custom node each, of different namespaces of which one
\* is empty, have compared equal.
C4_Witness ==
    /\ last.op = "eq"
    /\ last.flag
    /\ last.x.namespace # last.y.namespace
    /\ \E i \in 1..Len(last.x.traversal) : last.x.traversal[i].kind = "Custom"

\* C5: specs that compare equal have equal hashes.
C5_HashConsistent ==
    (last.op = "hash" /\ Equal(last.x, last.y) = Compared("", TRUE)) =>
        last.hx = last.hy

\* C6: decoding the picklable of a spec succeeds and gives a spec equal to
\* the one encoded.
C6_CodecRoundTrip ==
    last.op = "pickle" =>
        last.err = "" /\ Equal(last.out, last.x) = Compared("", TRUE)

\* The node state is not a tuple of 7 elements.
WrongSize(t) == Len(t) # 7

\* The kind of a node state of 7 elements whose kind and arity are
\* integers ("" for an ordinal that names no kind, "?" for any other state).
StateKind(t) ==
    IF Len(t) = 7 /\ t[1].t = "int" /\ t[2].t = "int" THEN KindOfOrdinal(t[1].n)
    ELSE "?"

\* A Leaf, None, Tuple or List node state that carries node_data.
DataNotNull(t) ==
    StateKind(t) \in {"Leaf", "None", "Tuple", "List"} /\ ~IsNone(t[3])

\* A node state of a kind other than Custom that carries node_entries or a
\* custom_type.
EntriesNotNull(t) ==
    /\ StateKind(t) \notin {"Custom", "", "?"}
    /\ (~IsNone(t[4]) \/ ~IsNone(t[5]))

\* The node_data of the node state is of the type its kind casts it to.
DataCasts(t) ==
    /\ StateKind(t) \in {"Dict", "OrderedDict"} => t[3].t = "list"
    /\ StateKind(t) \in {"NamedTuple", "StructSequence"} => t[3].t = "type"

\* Node state i is the first one at which decoding the picklable fails.
FirstFailure(pk, i) ==
    /\ i \in 1..Len(pk.nodes)
    /\ DecodeNode(pk.nodes[i], pk.none_is_leaf, pk.namespace).err # ""
    /\ \A j \in 1..(i - 1) :
          DecodeNode(pk.nodes[j], pk.none_is_leaf, pk.namespace).err = ""

\* Every element of the node state is None or of the type that the picklable
\* form gives it, and its kind ordinal names a kind.
WellTyped(t) ==
    Len(t) = 7 =>
        /\ StateKind(t) \notin {"", "?"}
        /\ DataCasts(t)
        /\ (IsNone(t[4]) \/ t[4].t = "tuple")
        /\ (IsNone(t[5]) \/ t[5].t = "type")
        /\ t[6].t = "int"
        /\ t[7].t = "int"

\* C7 as stated: FromPicklable fails with the Malformed error and returns
\* no spec when the outer tuple has not 3 elements, when any node tuple has
\* not 7 elements, when a Leaf, None, Tuple or List node carries node_data,
\* or when a node of another kind than Custom carries node_entries or a
\* custom_type (stated here for picklables whose node tuples are otherwise
\* well typed); a kind ordinal that names no kind is rejected with an error.
C7_AsStated ==
    last.op = "decode" =>
        LET pk == last.pk IN
        /\ (/\ \A i \in 1..Len(pk.nodes) : WellTyped(pk.nodes[i])
            /\ \/ pk.size # 3
               \/ \E i \in 1..Len(pk.nodes) :
                     \/ WrongSize(pk.nodes[i])
                     \/ DataNotNull(pk.nodes[i])
                     \/ EntriesNotNull(pk.nodes[i]))
           => last.err = "RuntimeError: Malformed" /\ last.out = EmptySpec
        /\ (\E i \in 1..Len(pk.nodes) : StateKind(pk.nodes[i]) = "")
           => last.err # ""

\* C7, amended: FromPicklable fails and returns no spec when the outer tuple
\* has not 3 elements, when a node tuple has not 7 elements, when a Leaf, None,
\* Tuple or List node carries node_data, when a node of another kind than
\* Custom carries node_entries or a custom_type, or when a kind ordinal
\* names no kind; the error is Malformed for an outer tuple of the wrong
\* size and whenever the node tuple at which decoding stops is one of the
\* wrong size, or one with node_data that its kind forbids, or one whose
\* node_data casts and whose node_entries or custom_type its kind forbids.
C7_CodecValidation ==
    last.op = "decode" =>
        LET pk == last.pk IN
        /\ (\/ pk.size # 3
            \/ \E i \in 1..Len(pk.nodes) :
                  \/ WrongSize(pk.nodes[i])
                  \/ DataNotNull(pk.nodes[i])
                  \/ EntriesNotNull(pk.nodes[i])
                  \/ StateKind(pk.nodes[i]) = "")
           => last.err # "" /\ last.out = EmptySpec
        /\ pk.size # 3 => last.err = "RuntimeError: Malformed"
        /\ \A i \in 1..Len(pk.nodes) :
              (/\ pk.size = 3
               /\ FirstFailure(pk, i)
               /\ \/ WrongSize(pk.nodes[i])
                  \/ DataNotNull(pk.nodes[i])
                  \/ EntriesNotNull(pk.nodes[i]) /\ DataCasts(pk.nodes[i]))
              => last.err = "RuntimeError: Malformed"

\* A picklable whose first node state is sound and whose second is a Leaf
\* with a custom_type has been refused as malformed.
C7_Witness ==
    /\ last.op = "decode"
    /\ last.err = "RuntimeError: Malformed"
    /\ Len(last.pk.nodes) = 2
    /\ last.pk.nodes[1] = LeafState
    /\ EntriesNotNull(last.pk.nodes[2])
    /\ StateKind(last.pk.nodes[2]) = "Leaf"

\* C8: a Custom node is decoded with the registration that the registry
\* holds for its custom_type under the namespace and the none_is_leaf of
\* the picklable; when decoding comes to a Custom node state (with
\* node_entries None or a tuple) whose custom_type is None or has no
\* registration, FromPicklable fails with the unknown-custom-type error; so
\* every Custom node of a decoded spec has a custom registration.
C8_DecodeCustom ==
    last.op = "decode" =>
        LET pk == last.pk IN
        /\ last.err = "" =>
              \A i \in 1..Len(last.out.traversal) :
                 last.out.traversal[i].kind = "Custom" =>
                    /\ last.out.traversal[i].custom # NoRegistration
                    /\ pk.nodes[i][5].t = "type"
                    /\ last.out.traversal[i].custom =
                          Lookup(pk.none_is_leaf, pk.nodes[i][5].s, pk.namespace)
        /\ \A i \in 1..Len(pk.nodes) :
              (/\ pk.size = 3
               /\ \A j \in 1..(i - 1) :
                     DecodeNode(pk.nodes[j], pk.none_is_leaf, pk.namespace).err = ""
               /\ StateKind(pk.nodes[i]) = "Custom"
               /\ (IsNone(pk.nodes[i][4]) \/ pk.nodes[i][4].t = "tuple")
               /\ \/ IsNone(pk.nodes[i][5])
                  \/ pk.nodes[i][5].t # "type"
                  \/ Lookup(pk.none_is_leaf, pk.nodes[i][5].s, pk.namespace)
                        = NoRegistration)
              => last.err = "RuntimeError: Unknown custom type"

\* A Custom node has been decoded with the registration of its class in the
\* namespace of the picklable, the class being registered in the default
\* namespace too.
C8_Witness ==
    /\ last.op = "decode"
    /\ last.err = ""
    /\ last.pk.namespace = "ns"
    /\ Cardinality(registry) = 2
    /\ \E i \in 1..Len(last.out.traversal) :
          /\ last.out.traversal[i].kind = "Custom"
          /\ last.out.traversal[i].custom.namespace = "ns"

RECURSIVE Concatenated(_, _)
\* The traversals of the specs from i on, one after the other.
Concatenated(specs, i) ==
    IF i > Len(specs) THEN <<>>
    ELSE specs[i].traversal \o Concatenated(specs, i + 1)

\* C9: children() throws nothing (the walk ends at position 0) and returns
\* as many specs as the arity of the root, each with the none_is_leaf and
\* the namespace of the spec; their traversals one after the other, in
\* order, followed by the root node are the traversal of the spec; a spec
\* of one node has no children.
C9_ChildrenDecomposition ==
    last.op = "children" =>
        /\ last.err = ""
        /\ Len(last.outs) = Back(last.x).arity
        /\ \A i \in 1..Len(last.outs) :
              /\ last.outs[i].none_is_leaf = last.x.none_is_leaf
              /\ last.outs[i].namespace = last.x.namespace
        /\ Concatenated(last.outs, 1) \o <<Back(last.x)>> = last.x.traversal
        /\ Len(last.x.traversal) = 1 => last.outs = <<>>

\* A spec with two different children has been taken apart.
C9_Witness ==
    /\ last.op = "children"
    /\ last.err = ""
    /\ Len(last.outs) = 2
    /\ last.outs[1] # last.outs[2]

\* C10: for a spec whose root is a Tuple node, tuple(children(),
\* none_is_leaf) is a spec equal to it, with the same traversal.
C10_ChildrenReassembly ==
    (last.op = "children" /\ Back(last.x).kind = "Tuple") =>
        LET r == Tuple(last.outs, last.x.none_is_leaf) IN
        /\ r.err = ""
        /\ r.spec.traversal = last.x.traversal
        /\ Equal(r.spec, last.x) = Compared("", TRUE)

\* A spec whose root is a Tuple node above a None node, with a namespace,
\* has been taken apart.
C10_Witness ==
    /\ last.op = "children"
    /\ last.err = ""
    /\ Back(last.x).kind = "Tuple"
    /\ Back(last.x).arity = 1
    /\ Back(last.x).num_leaves = 0
    /\ last.x.namespace = "ns"

RECURSIVE SumOf(_, _)
\* The sum of the numbers of the sequence q from position i on.
SumOf(q, i) == IF i > Len(q) THEN 0 ELSE q[i] + SumOf(q, i + 1)

\* C11: a tuple(children, none_is_leaf) call that returns has made a spec
\* whose traversal is the children's traversals one after the other, in
\* order, followed by one Tuple node; that node has as arity the number of
\* children, as num_leaves the sum of the children's num_leaves and as
\* num_nodes 1 plus the sum of the children's num_nodes, which is the length
\* of the traversal; with no children the spec is one Tuple node without
\* leaves.
C11_TupleConstructor ==
    (last.op = "tuple" /\ last.err = "") =>
        LET n == Len(last.xs)
            root == Back(last.out)
        IN /\ last.out.traversal = Append(Concatenated(last.xs, 1), root)
           /\ root.kind = "Tuple"
           /\ root.arity = n
           /\ root.num_leaves = SumOf([i \in 1..n |-> num_leaves(last.xs[i])], 1)
           /\ root.num_nodes = 1 + SumOf([i \in 1..n |-> num_nodes(last.xs[i])], 1)
           /\ root.num_nodes = Len(last.out.traversal)
           /\ last.out.none_is_leaf = last.nil
           /\ n = 0 => /\ Len(last.out.traversal) = 1
                       /\ root.num_leaves = 0

\* A tuple of two different children, one of them with a child of its own,
\* has been made.
C11_Witness ==
    /\ last.op = "tuple"
    /\ last.err = ""
    /\ Len(last.xs) = 2
    /\ Len(last.xs[1].traversal) = 1
    /\ Len(last.xs[2].traversal) > 1
    /\ Back(last.out).num_leaves = 2

\* C12: x.compose(y) with x.none_is_leaf different from y.none_is_leaf
\* throws the none_is_leaf ValueError, and tuple(children, none_is_leaf)
\* with a child whose none_is_leaf differs from the argument throws; either
\* way no spec is returned, and a compose or tuple call changes neither the
\* spec the caller holds nor the registry.
C12_ModeMismatch ==
    /\ [](/\ (last.op = "compose" /\ last.x.none_is_leaf # last.y.none_is_leaf) =>
               /\ last.err = "ValueError: none_is_leaf"
               /\ last.out = EmptySpec
               /\ Results = {}
          /\ (/\ last.op = "tuple"
              /\ \E i \in 1..Len(last.xs) : last.xs[i].none_is_leaf # last.nil) =>
               /\ last.err \in {"ValueError: none_is_leaf", "ValueError: namespace"}
               /\ last.out = EmptySpec
               /\ Results = {})
    /\ [][last'.op \in {"compose", "tuple"} => (a' = a /\ registry' = registry)]_vars

\* A tuple call whose second child alone is of the other mode has thrown.
C12_Witness ==
    /\ last.op = "tuple"
    /\ last.err = "ValueError: none_is_leaf"
    /\ Len(last.xs) = 2
    /\ last.xs[1].none_is_leaf = last.nil
    /\ last.xs[2].none_is_leaf # last.nil

\* C14: leaf(none_is_leaf) returns a spec of one node of kind Leaf, arity 0,
\* num_leaves 1 and num_nodes 1, of the mode asked for; none(false) returns
\* a spec of one node of kind None, arity 0, num_leaves 0 and num_nodes 1;
\* none(true) returns what leaf(true) returns, and compares equal to it;
\* all of them have the empty namespace.
C14_LeafNoneConstructors ==
    /\ last.op \in {"leaf", "none"} =>
          /\ last.err = ""
          /\ Len(last.out.traversal) = 1
          /\ num_nodes(last.out) = 1
          /\ Back(last.out).arity = 0
          /\ Back(last.out).num_nodes = 1
          /\ last.out.none_is_leaf = last.nil
          /\ last.out.namespace = ""
    /\ last.op = "leaf" =>
          /\ Back(last.out).kind = "Leaf"
          /\ num_leaves(last.out) = 1
    /\ (last.op = "none" /\ ~last.nil) =>
          /\ Back(last.out).kind = "None"
          /\ num_leaves(last.out) = 0
    /\ (last.op = "none" /\ last.nil) =>
          /\ Back(last.out).kind = "Leaf"
          /\ num_leaves(last.out) = 1
          /\ last.out = Leaf(TRUE)
          /\ Equal(last.out, Leaf(TRUE)) = Compared("", TRUE)

\* none(true) has returned a spec of one Leaf node.
C14_Witness ==
    /\ last.op = "none"
    /\ last.nil
    /\ Len(last.out.traversal) = 1
    /\ last.out.traversal[1].kind = "Leaf"

\* C15: is_leaf(strict=true) returns true exactly when the spec is one node
\* of kind Leaf; is_leaf(strict=false) returns true for a spec of one Leaf
\* node and for a spec of one None node.
C15_IsLeaf ==
    last.op = "is_leaf" =>
        LET single(kinds) == /\ Len(last.x.traversal) = 1
                             /\ last.x.traversal[1].kind \in kinds
        IN /\ last.strict => (last.flag <=> single({"Leaf"}))
           /\ (~last.strict /\ single({"Leaf", "None"})) => last.flag

\* is_leaf(strict=true) has been asked of a spec of one None node.
C15_Witness ==
    /\ last.op = "is_leaf"
    /\ last.strict
    /\ Len(last.x.traversal) = 1
    /\ last.x.traversal[1].kind = "None"
    /\ ~last.flag

\* The operands of the compose or tuple call in progress.
CombinedSpecs == IF last.op = "compose" THEN <<last.x, last.y>> ELSE last.xs

\* The non-empty namespaces the operands carry.
CombinedNamespaces ==
    {CombinedSpecs[i].namespace : i \in 1..Len(CombinedSpecs)} \ {""}

\* The operands agree on none_is_leaf (for tuple: with the argument).
ModesAgree ==
    IF last.op = "compose" THEN last.x.none_is_leaf = last.y.none_is_leaf
    ELSE \A i \in 1..Len(last.xs) : last.xs[i].none_is_leaf = last.nil

\* The namespace rule for the call in progress: it throws the namespace
\* ValueError iff two operands carry different non-empty namespaces, and a
\* spec it returns has the one non-empty namespace among the operands, or
\* the empty one.
NamespaceRule ==
    /\ (last.err = "ValueError: namespace") <=> (Cardinality(CombinedNamespaces) >= 2)
    /\ last.err = "" =>
          /\ Results = {last.out}
          /\ \/ CombinedNamespaces = {} /\ last.out.namespace = ""
             \/ CombinedNamespaces = {last.out.namespace}

\* C13 as stated: the namespace rule holds of every compose and tuple call.
C13_AsStated ==
    last.op \in {"compose", "tuple"} => NamespaceRule

\* C13: a compose or tuple call throws the namespace ValueError only if two
\* of its operands carry different non-empty namespaces; when the operands
\* agree on none_is_leaf it throws that error iff two operands (for tuple
\* any two children, neighbours or not) carry different non-empty
\* namespaces, and otherwise returns a spec whose namespace is the one
\* non-empty namespace among the operands, or empty when all are empty.
C13_NamespaceRule ==
    last.op \in {"compose", "tuple"} =>
        /\ last.err = "ValueError: namespace" => Cardinality(CombinedNamespaces) >= 2
        /\ ModesAgree =>
              /\ NamespaceRule
              /\ Cardinality(CombinedNamespaces) <= 1 => last.err = ""

\* A tuple of three children of one mode has thrown the namespace error:
\* the first and the third carry different namespaces, the second none.
C13_Witness ==
    /\ last.op = "tuple"
    /\ last.err = "ValueError: namespace"
    /\ Len(last.xs) = 3
    /\ ModesAgree
    /\ last.xs[1].namespace = "ns"
    /\ last.xs[2].namespace = ""
    /\ last.xs[3].namespace = "n2"

\* The kinds of the nodes of a traversal, in order.
Kinds(traversal) == [i \in 1..Len(traversal) |-> traversal[i].kind]

\* C16: with none_is_leaf, flattening None gives the one leaf None and a
\* spec of one Leaf node; without it, no leaves and a spec of one None node
\* with num_leaves 0.  flatten((None, 1)) gives leaves [1] and children of
\* kinds None, Leaf in node mode, and leaves [None, 1] and two Leaf children
\* in leaf mode.  In node mode None is never a leaf and there is one leaf
\* per Leaf node, so a None node takes no leaf; unflatten throws nothing
\* and builds a value with None at each of those positions again.
C16_NoneMode ==
    last.op \in {"flatten", "unflatten"} =>
        /\ (last.tree = NoneVal /\ last.nil) =>
              /\ last.leaves = <<NoneVal>>
              /\ last.out = Leaf(TRUE)
        /\ (last.tree = NoneVal /\ ~last.nil) =>
              /\ last.leaves = <<>>
              /\ Kinds(last.out.traversal) = <<"None">>
              /\ num_leaves(last.out) = 0
        /\ (last.tree = TupleVal(<<NoneVal, IntVal(1)>>) /\ ~last.nil) =>
              /\ last.leaves = <<IntVal(1)>>
              /\ Kinds(last.out.traversal) = <<"None", "Leaf", "Tuple">>
              /\ num_leaves(last.out) = 1
        /\ (last.tree = TupleVal(<<NoneVal, IntVal(1)>>) /\ last.nil) =>
              /\ last.leaves = <<NoneVal, IntVal(1)>>
              /\ Kinds(last.out.traversal) = <<"Leaf", "Leaf", "Tuple">>
              /\ num_leaves(last.out) = 2
        /\ ~last.nil => \A i \in 1..Len(last.leaves) : last.leaves[i] # NoneVal
        /\ last.nil => \A i \in 1..Len(last.out.traversal) :
                            last.out.traversal[i].kind # "None"
        /\ Len(last.leaves)
             = Cardinality({i \in 1..Len(last.out.traversal) :
                               last.out.traversal[i].kind = "Leaf"})
        /\ last.op = "unflatten" =>
              /\ last.err = ""
              /\ ValueEqual(last.val, last.tree)

\* (None, 1) has been flattened in node mode and built again from the one
\* leaf.
C16_Witness ==
    /\ last.op = "unflatten"
    /\ ~last.nil
    /\ last.tree = TupleVal(<<NoneVal, IntVal(1)>>)
    /\ last.leaves = <<IntVal(1)>>
    /\ last.val = TupleVal(<<NoneVal, IntVal(1)>>)

\* The mapping v with its pairs inserted in the order p, a permutation of
\* the positions of its keys.
Reinserted(v, p) ==
    MappingVal(v.ty, v.aux, [i \in 1..Len(p) |-> v.keys[p[i]]],
               [i \in 1..Len(p) |-> v.items[p[i]]])

\* The orders of insertion of n pairs: the permutations of 1..n.
InsertionOrders(n) ==
    {p \in [1..n -> 1..n] : \A i, j \in 1..n : i # j => p[i] # p[j]}

\* The canonical order of two keys: by type name between keys of two
\* types, by value between keys of one type.
KeyBefore(k1, k2) ==
    IF k1.t # k2.t THEN <<k1.t, k2.t>> \in {<<"K", "int">>, <<"K", "str">>, <<"int", "str">>}
    ELSE k1.n < k2.n

\* The canonical order is defined on the keys: no two of them are
\* instances of one class without an order.
Sortable(keys) ==
    \A i, j \in 1..Len(keys) :
        (i # j /\ keys[i].t = keys[j].t) => keys[i].t \in {"int", "str"}

\* The dict flattened and the same pairs inserted in any other order
\* flatten to the same leaves and to equal specs.
DictCanonical ==
    \A p \in InsertionOrders(Len(last.tree.keys)) :
        LET g == Flatten(Reinserted(last.tree, p), last.nil, "") IN
        /\ g.leaves = last.leaves
        /\ g.spec = last.out
        /\ Equal(g.spec, last.out) = Compared("", TRUE)

\* An OrderedDict flattens to its keys in insertion order, and the same
\* pairs inserted in another order flatten to a spec that is not equal.
OrderedDictNotCanonical ==
    /\ Back(last.out).node_data = PyList(last.tree.keys)
    /\ \A p \in InsertionOrders(Len(last.tree.keys)) :
          LET w == Reinserted(last.tree, p)
              g == Flatten(w, last.nil, "")
          IN w.keys # last.tree.keys =>
                /\ Back(g.spec).node_data # Back(last.out).node_data
                /\ Equal(g.spec, last.out) = Compared("", FALSE)

C18_UnflattenLeafCount ==
    last.op = "unflatten_leaves" =>
        IF Len(last.leaves) # num_leaves(last.out)
        THEN last.err = "ValueError: leaf count" /\ last.val = NoneVal
        ELSE /\ last.err = ""
             /\ last.val = UnflattenLoop(last.out, last.leaves, 1, <<>>, 1).val
             /\ ValueEqual(last.val, last.tree)

\* A spec of two leaves has been given three leaves and has thrown.
C18_Witness ==
    /\ last.op = "unflatten_leaves"
    /\ num_leaves(last.out) = 2
    /\ Len(last.leaves) = 3
    /\ last.err = "ValueError: leaf count"

\* The value w is a leaf for flatten: an int, or None when none_is_leaf.
LeafValue(w, nil) == w.ty = "int" \/ (nil /\ w.ty = "NoneType")

RECURSIVE Extends(_, _, _)
\* The structure of the value w is a prefix of the structure of v: where w
\* has a leaf v has any value; where w has None or a container, v has None
\* or a container of the same type, length, keys and maxlen, whose children
\* extend the children of w.
Extends(v, w, nil) ==
    \/ LeafValue(w, nil)
    \/ /\ v.ty = w.ty
       /\ v.aux = w.aux
       /\ Len(v.items) = Len(w.items)
       /\ {v.keys[i] : i \in 1..Len(v.keys)} = {w.keys[i] : i \in 1..Len(w.keys)}
       /\ IF w.ty = "dict"
          THEN \A i \in 1..Len(w.keys) :
                  Extends(GetItem(v, w.keys[i]), w.items[i], nil)
          ELSE \A i \in 1..Len(w.items) : Extends(v.items[i], w.items[i], nil)

RECURSIVE AtLeaves(_, _, _)
\* The values found in v at the positions of the leaves of w, in the order
\* of the leaves of w (the children of a dict by sorted key).
AtLeaves(v, w, nil) ==
    IF LeafValue(w, nil) THEN <<v>>
    ELSE LET order == IF w.ty = "dict" THEN SortedDictKeys(w) ELSE <<>>
             child(u, i) == IF w.ty = "dict" THEN GetItem(u, order[i]) ELSE u.items[i]
         IN Concatenated([i \in 1..Len(w.items) |->
                            [traversal |-> AtLeaves(child(v, i), child(w, i), nil)]], 1)

\* C19: p.flatten_up_to(v), for the spec p of a value w, throws nothing
\* iff the structure of w is a prefix of the structure of v, and throws the
\* structure mismatch when at an internal node of p the kind, the arity or
\* the node_data of v differs.  When it returns, it returns num_leaves()
\* sub-values, one for each leaf of p in the order of the leaves: the whole
\* value found in v at that position; and p.unflatten of them throws
\* nothing and builds a value equal to v.
C19_FlattenUpTo ==
    last.op \in {"flatten_up_to", "unflatten_up_to"} =>
        IF Extends(last.full, last.tree, last.nil)
        THEN /\ last.err = ""
             /\ Len(last.leaves) = num_leaves(last.out)
             /\ last.leaves = AtLeaves(last.full, last.tree, last.nil)
             /\ last.op = "unflatten_up_to" => ValueEqual(last.val, last.full)
        ELSE /\ last.op = "flatten_up_to"
             /\ last.err = "ValueError: structure mismatch"
             /\ last.leaves = <<>>

\* The spec [(*, *), *] has been given [(1, (2, 3)), {"foo": 4}]: it has
\* returned [1, (2, 3), {"foo": 4}], and unflatten has built the value
\* again.
C19_Witness ==
    /\ last.op = "unflatten_up_to"
    /\ Kinds(last.out.traversal) = <<"Leaf", "Leaf", "Tuple", "Leaf", "List">>
    /\ last.full = ListVal(<<TupleVal(<<IntVal(1), TupleVal(<<IntVal(2), IntVal(3)>>)>>),
                             DictVal(<<Key("str", 1)>>, <<IntVal(4)>>)>>)
    /\ last.leaves = <<IntVal(1), TupleVal(<<IntVal(2), IntVal(3)>>),
                       DictVal(<<Key("str", 1)>>, <<IntVal(4)>>)>>
    /\ last.val = last.full

RECURSIVE CommaList(_)
\* The strings with ", " between them.
CommaList(q) ==
    IF q = <<>> THEN ""
    ELSE IF Len(q) = 1 THEN q[1]
    ELSE CommaList(SubSeq(q, 1, Len(q) - 1)) \o ", " \o q[Len(q)]

\* The repr of the dict keys of the specs printed.
KeyText(k) ==
    CASE k = Key("str", 1) -> "'a'"
      [] k = Key("str", 2) -> "'b'"
      [] k = Key("int", 1) -> "1"
      [] OTHER -> "?"

RECURSIVE Rendered(_)
\* The rendering of a spec of Leaf, None, Tuple, List and Dict nodes, from
\* the root down: * for a Leaf, None for a None node, (c1, c2, ...) for a
\* Tuple, (c,) for a Tuple of one child, [c1, c2, ...] for a List and
\* {k1: c1, ...} for a Dict, its keys in the order of the spec.
Rendered(t) ==
    LET root == Back(t)
        specs == Children(t).specs
        c == [i \in 1..Len(specs) |-> Rendered(specs[i])]
    IN CASE root.kind = "Leaf" -> "*"
         [] root.kind = "None" -> "None"
         [] root.kind = "Tuple" ->
               IF Len(c) = 1 THEN "(" \o c[1] \o ",)" ELSE "(" \o CommaList(c) \o ")"
         [] root.kind = "List" -> "[" \o CommaList(c) \o "]"
         [] root.kind = "Dict" ->
               "{" \o CommaList([i \in 1..Len(c) |->
                                   KeyText(root.node_data.ks[i]) \o ": " \o c[i]]) \o "}"
         [] OTHER -> "?"

\* What follows the root in the string of a spec.
Wrapping(t) ==
    (IF t.none_is_leaf THEN ", NoneIsLeaf" ELSE "")
    \o (IF t.namespace = "" THEN "" ELSE ", namespace='" \o t.namespace \o "'")
    \o ")"

\* C20: ToString of a spec a flatten or a compose returned throws nothing:
\* at every node the stack holds the strings of the node's children, and at
\* the end exactly one string.  The string is PyTreeSpec( and the string of
\* the root, then ", NoneIsLeaf" iff none_is_leaf, then ", namespace=" and
\* the repr of the namespace iff it is not empty, then ).  For a spec of
\* Leaf, None, Tuple, List and Dict nodes the string of the root is the
\* rendering from the root down; compose of the specs of [0, 0] and (0, 0)
\* prints as PyTreeSpec([(*, *), (*, *)]).
C20_Printing ==
    last.op = "str" =>
        LET str == last.str
            n == Len(str) - Len(Wrapping(last.out))
        IN /\ last.err = ""
           /\ n > Len("PyTreeSpec(")
           /\ SubSeq(str, 1, Len("PyTreeSpec(")) = "PyTreeSpec("
           /\ SubSeq(str, n + 1, Len(str)) = Wrapping(last.out)
           /\ SubSeq(str, n, n) \in {"*", "e", ")", "]", "}"}
           /\ (\A i \in 1..Len(last.out.traversal) :
                  last.out.traversal[i].kind \in {"Leaf", "None", "Tuple", "List", "Dict"})
                 => str = "PyTreeSpec(" \o Rendered(last.out) \o Wrapping(last.out)
           /\ (/\ last.x = Flatten(ListVal(<<IntVal(0), IntVal(0)>>), FALSE, "").spec
               /\ last.y = Flatten(TupleVal(<<IntVal(0), IntVal(0)>>), FALSE, "").spec)
                 => str = "PyTreeSpec([(*, *), (*, *)])"

\* The spec of [0, 0] composed with the spec of (0, 0) has been printed.
C20_Witness ==
    /\ last.op = "str"
    /\ last.x = Flatten(ListVal(<<IntVal(0), IntVal(0)>>), FALSE, "").spec
    /\ last.y = Flatten(TupleVal(<<IntVal(0), IntVal(0)>>), FALSE, "").spec
    /\ num_leaves(last.out) = 4
    /\ last.str = "PyTreeSpec([(*, *), (*, *)])"

\* The number of Leaf nodes of a traversal.
LeafCount(traversal) ==
    Cardinality({i \in 1..Len(traversal) : traversal[i].kind = "Leaf"})

\* C21: every spec that FromPicklable returns without an error, whatever the
\* picklable, has a traversal that is not empty, whose root's num_nodes is
\* the length of the traversal and whose root's num_leaves is the number of
\* its Leaf nodes.
C21_DecodedInvariants ==
    (last.op = "decode" /\ last.err = "") =>
        /\ Len(last.out.traversal) > 0
        /\ Back(last.out).num_nodes = Len(last.out.traversal)
        /\ Back(last.out).num_leaves = LeafCount(last.out.traversal)

RECURSIVE SliceLength(_, _, _)
\* The length of the post-order slice that ends at node i, found from the
\* arities alone: walking back from i with `pending` subtrees still to close
\* (-1 if the traversal starts before they are closed).
SliceLength(traversal, i, pending) ==
    IF pending = 0 THEN 0
    ELSE IF i < 1 THEN -1
    ELSE LET rest == SliceLength(traversal, i - 1,
                                 pending - 1 + traversal[i].arity)
         IN IF rest < 0 THEN -1 ELSE 1 + rest

RECURSIVE ChildCount(_, _, _)
\* The number of top-level child subtrees between lo and i, found from the
\* num_nodes alone: each child's root is stepped over by its num_nodes.
ChildCount(traversal, i, lo) ==
    IF i < lo THEN 0
    ELSE IF traversal[i].num_nodes < 1 THEN -1
    ELSE LET rest == ChildCount(traversal, i - traversal[i].num_nodes, lo)
         IN IF rest < 0 THEN -1 ELSE 1 + rest

\* The invariants of the data model, at every node of a spec.
WellFormed(t) ==
    LET traversal == t.traversal IN
    /\ Len(traversal) > 0
    /\ Back(t).num_nodes = Len(traversal)
    /\ \A i \in 1..Len(traversal) :
          LET node == traversal[i]
              lo == i - node.num_nodes + 1
          IN /\ node.num_nodes >= 1
             /\ lo >= 1
             /\ node.num_nodes = SliceLength(traversal, i, 1)
             /\ node.num_leaves = LeafCount(SubSeq(traversal, lo, i))
             /\ node.arity = ChildCount(traversal, i - 1, lo)
             /\ node.kind = "Leaf"
                  => (node.num_leaves = 1 /\ node.num_nodes = 1 /\ node.arity = 0)
             /\ node.kind = "None"
                  => (node.num_leaves = 0 /\ node.num_nodes = 1 /\ node.arity = 0)

\* C22: the spec the caller holds, reached from leaf and none (and flatten)
\* by tuple, compose and children, is well formed, and so is every spec that
\* leaf, none, tuple, compose or children returns: at every index num_nodes
\* is the length of the post-order slice ending there, num_leaves the number
\* of Leaf nodes in the slice, arity the number of top-level child subtrees;
\* a Leaf node has (1, 1, 0), a None node (0, 1, 0); the root's num_nodes is
\* the length of the traversal.
C22_WellFormedPreserved ==
    /\ WellFormed(a)
    /\ (last.op \in {"leaf", "none", "tuple", "compose"} /\ last.err = "")
          => WellFormed(last.out)
    /\ (last.op = "children" /\ last.err = "")
          => \A i \in 1..Len(last.outs) : WellFormed(last.outs[i])

\* A tuple of two children, itself made by tuple and kept, has been composed
\* with a spec of several nodes.
C22_Witness ==
    /\ last.op = "compose" /\ last.err = ""
    /\ last.x = a
    /\ Back(last.x).kind = "Tuple" /\ Back(last.x).arity = 2
    /\ Len(last.y.traversal) > 1
    /\ Len(last.out.traversal) >= 5
    /\ WellFormed(last.out)

\* The calls that only read their operands.
ReadingCalls ==
    {"compose", "tuple", "children", "is_leaf", "eq", "ne", "hash", "pickle", "str"}

ExpectedKind(type, nil, ns) ==
    IF BuiltinKind(type, nil) # "" THEN BuiltinKind(type, nil)
    ELSE IF \E r \in registry : r.type = type /\ r.namespace \in {ns, ""}
    THEN "Custom"
    ELSE IF type \in NamedTupleTypes THEN "NamedTuple"
    ELSE IF type \in StructSequenceTypes THEN "StructSequence"
    ELSE "Leaf"

\* C24: the root node of the spec flatten returns has the kind of the
\* classification order (registry first, then namedtuple, then struct
\* sequence, else Leaf); its custom pointer is set exactly when the kind is
\* Custom, and then it is the registration of the object's class; at every
\* node of the spec the custom pointer is set exactly when the node is
\* Custom.
C24_ClassificationOrder ==
    last.op = "flatten" =>
        LET root == Back(last.out) IN
        /\ root.kind = ExpectedKind(last.tree.ty, last.nil, last.ns)
        /\ root.kind = "Custom" => root.custom.type = last.tree.ty
        /\ \A i \in 1..Len(last.out.traversal) :
              (last.out.traversal[i].custom # NoRegistration)
                 <=> (last.out.traversal[i].kind = "Custom")

\* An object of the namedtuple class Point, registered by the caller, has
\* been flattened into a Custom node.
C24_Witness ==
    /\ last.op = "flatten"
    /\ IsNamedTuple(last.tree)
    /\ Back(last.out).kind = "Custom"
    /\ Back(last.out).custom.type = last.tree.ty

\* The error that k1 < k2 raises between two keys, and between their sort
\* keys (qualname, key): "" if none.
KeyOrderError(k1, k2, fallback) ==
    IF fallback /\ k1.t # k2.t THEN ""
    ELSE IF "E" \in {k1.t, k2.t} THEN "ValueError"
    ELSE IF k1.t = k2.t /\ k1.t \in {"int", "str"} THEN ""
    ELSE "TypeError"

\* The error the first attempt raises: that of the first key, in insertion
\* order, which cannot be compared with a key before it.
NaturalError(keys) ==
    LET failing == {i \in 2..Len(keys) :
                      \E j \in 1..(i - 1) : KeyOrderError(keys[i], keys[j], FALSE) # ""}
    IN IF failing = {} THEN ""
       ELSE LET i == CHOOSE i \in failing : \A k \in failing : i <= k
            IN KeyOrderError(keys[i], keys[i - 1], FALSE)

\* The errors the second attempt can raise: those between two keys of one
\* type.
FallbackErrors(keys) ==
    {KeyOrderError(keys[p[1]], keys[p[2]], TRUE) :
        p \in {p \in (1..Len(keys)) \X (1..Len(keys)) : p[1] # p[2]}} \ {""}

\* The keys come out as a rearrangement of the keys that went in, each key
\* before the keys that come after it in the order given.
SortedBy(out, keys, Before(_, _)) ==
    /\ Len(out) = Len(keys)
    /\ {out[i] : i \in 1..Len(out)} = {keys[i] : i \in 1..Len(keys)}
    /\ \A i, j \in 1..Len(out) : i < j => Before(out[i], out[j])

\* The order of the sort keys (qualname, key).
QualifiedBefore(k1, k2) ==
    IF k1.t # k2.t
    THEN <<k1.t, k2.t>> \in {<<"E", "K">>, <<"E", "int">>, <<"E", "str">>,
                             <<"K", "int">>, <<"K", "str">>, <<"int", "str">>}
    ELSE k1.n < k2.n

\* The fallback chain but for what is left when both attempts raise a type
\* error: the keys are sorted naturally; only on a type error are they
\* sorted by (qualified type name, key); only when that raises a type error
\* too does the call return without an error and without a sorted list; an
\* error of any other kind of either attempt is thrown on.
FallbackChain ==
    LET keys == last.tree.keys
        out == last.val.keys
        first == NaturalError(keys)
        second == FallbackErrors(keys)
    IN /\ first = "" => (last.err = "" /\ SortedBy(out, keys, LAMBDA k1, k2 : k1.n < k2.n))
       /\ (first = "TypeError" /\ second = {})
             => (last.err = "" /\ SortedBy(out, keys, QualifiedBefore))
       /\ (first = "TypeError" /\ second = {"TypeError"})
             => (last.err = "" /\ SortedBy(out, keys, LAMBDA k1, k2 : TRUE))
       /\ (first = "TypeError" /\ second = {"ValueError"}) => last.err = "ValueError"
       /\ (first = "TypeError" /\ second = {"TypeError", "ValueError"})
             => last.err \in {"", "ValueError"}
       /\ first \notin {"", "TypeError"} => last.err = first

\* C25: TotalOrderSort sorts the keys naturally; only on a type error does
\* it sort them by (qualified type name, key); only if that also fails with
\* a type error does it return without error, leaving the keys in insertion
\* order; an error of any other kind of either attempt is thrown on.
C25_FallbackChain ==
    last.op = "sorted_keys" =>
        /\ FallbackChain
        /\ (/\ NaturalError(last.tree.keys) = "TypeError"
            /\ FallbackErrors(last.tree.keys) = {"TypeError"})
              => last.val.keys = last.tree.keys

\* Two specs are the same but for the node_data of Custom nodes, which
\* differs in at least one of them.
SameButCustomData(x, y) ==
    /\ x.none_is_leaf = y.none_is_leaf
    /\ x.namespace = y.namespace
    /\ Len(x.traversal) = Len(y.traversal)
    /\ \A i \in 1..Len(x.traversal) :
          /\ [x.traversal[i] EXCEPT !.node_data = NullObj]
               = [y.traversal[i] EXCEPT !.node_data = NullObj]
          /\ x.traversal[i].node_data # y.traversal[i].node_data
                => x.traversal[i].kind = "Custom"
    /\ \E i \in 1..Len(x.traversal) :
          x.traversal[i].node_data # y.traversal[i].node_data

\* C26: the node_data of a Custom node does not influence the hash: two
\* specs that differ only in it hash alike.  Equality compares it by value:
\* the two specs are reported unequal.
C26_CustomDataNotHashed ==
    /\ (last.op = "hash" /\ SameButCustomData(last.x, last.y))
          => /\ last.hx = last.hy
             /\ Equal(last.x, last.y) = Compared("", FALSE)
    /\ (last.op = "eq" /\ SameButCustomData(last.x, last.y))
          => /\ last.err = "" /\ ~last.flag
             /\ Hash(last.x) = Hash(last.y)

\* Two specs of one registered class, with auxiliary data 7 and 8, have been
\* hashed.
C26_Witness ==
    /\ last.op = "hash"
    /\ SameButCustomData(last.x, last.y)
    /\ Back(last.x).kind = "Custom"
    /\ Back(last.x).node_data = PyInt(7) /\ Back(last.y).node_data = PyInt(8)
    /\ last.hx = last.hy

\* C27: == on specs is an equivalence relation, specs of different
\* namespaces included: x == x; x == y exactly when y == x; and x == y and
\* y == z give x == z.
C27_EqualityEquivalence ==
    last.op = "eq" =>
        /\ last.err = ""
        /\ last.x = last.y => last.flag
        /\ last.flag = Equal(last.y, last.x).flag
        /\ last.flag => \A z \in ComparedSpecs :
                           Equal(last.y, z).flag => Equal(last.x, z).flag

\* C28: a single Leaf is an identity of compose on both sides: for a spec s
\* and the leaf spec of s's mode, leaf.compose(s) and s.compose(leaf) throw
\* nothing and return exactly s's traversal, none_is_leaf and namespace.
C28_LeafIdentity ==
    last.op = "compose" =>
        /\ (last.x = Leaf(last.y.none_is_leaf))
              => (last.err = "" /\ last.out = last.y)
        /\ (last.y = Leaf(last.x.none_is_leaf))
              => (last.err = "" /\ last.out = last.x)

\* A leaf has been composed with a spec of three nodes that has a
\* namespace.
C28_Witness ==
    /\ last.op = "compose" /\ last.err = ""
    /\ a.namespace # "" /\ Len(a.traversal) = 3
    /\ last.y = a /\ last.x = Leaf(a.none_is_leaf) /\ last.out = a

\* Both groupings of x, y and z fail, or both return the same spec.
Associative(x, y, z) ==
    LET xy == Compose(x, y)
        yz == Compose(y, z)
        left == IF xy.err = "" THEN Compose(xy.spec, z) ELSE xy
        right == IF yz.err = "" THEN Compose(x, yz.spec) ELSE yz
    IN /\ (left.err = "") <=> (right.err = "")
       /\ left.err = "" => left.spec = right.spec

\* C29: compose is associative: for the operands x and y of a compose and
\* every third spec z, and for a spec x that tuple returned, its children y
\* and every third spec z, (x.compose(y)).compose(z) and
\* x.compose(y.compose(z)) both fail or both return a spec with the same
\* traversal (counts included), none_is_leaf and namespace.
C29_ComposeAssociative ==
    /\ last.op = "compose"
          => \A z \in ComparedSpecs : Associative(last.x, last.y, z)
    /\ (last.op = "tuple" /\ last.err = "")
          => \A i \in 1..Len(last.xs) :
                \A z \in Operands : Associative(last.out, last.xs[i], z)

\* Three specs of pairwise compatible namespaces, the outer one of several
\* leaves, compose to the same spec either way; and a compose that succeeds
\* is followed by one that fails on the namespace either way.
C29_Witness ==
    /\ last.op = "tuple" /\ last.err = ""
    /\ num_leaves(last.out) = 3
    /\ last.out.namespace = "ns"
    /\ \E i \in 1..Len(last.xs) : \E z \in Operands :
          /\ last.xs[i].namespace = "" /\ z.namespace = "n2"
          /\ Compose(last.out, last.xs[i]).err = ""
          /\ Compose(Compose(last.out, last.xs[i]).spec, z).err # ""
          /\ Compose(last.xs[i], z).err = ""
          /\ Compose(last.out, Compose(last.xs[i], z).spec).err # ""
    /\ \E i \in 1..Len(last.xs) : \E z \in Operands :
          /\ num_nodes(last.xs[i]) = 2 /\ num_nodes(z) = 2
          /\ Compose(Compose(last.out, last.xs[i]).spec, z).err = ""
          /\ num_nodes(Compose(last.out, Compose(last.xs[i], z).spec).spec) > 9

\* C30 as stated: is_leaf(strict=false) returns true only for a spec whose
\* root is a Leaf or a None node, and false for every spec whose root is a
\* container, containers with zero children included.
C30_AsStated ==
    (last.op = "is_leaf" /\ ~last.strict) =>
        (last.flag <=> Back(last.x).kind \in {"Leaf", "None"})

\* C30: is_leaf(strict=false) returns true exactly for a spec of one node:
\* a Leaf, a None node, or a container with zero children; it returns false
\* for a container with at least one child.
C30_IsLeafNonStrict ==
    (last.op = "is_leaf" /\ ~last.strict) =>
        /\ last.flag <=> (Back(last.x).kind \in {"Leaf", "None"}
                          \/ Back(last.x).arity = 0)
        /\ Back(last.x).arity > 0 => ~last.flag
        /\ Back(last.x).kind \in {"Leaf", "None"} => last.flag

\* is_leaf(strict=false) has been asked of the spec of an empty tuple.
C30_Witness ==
    /\ last.op = "is_leaf" /\ ~last.strict
    /\ Back(last.x).kind = "Tuple" /\ Back(last.x).arity = 0
    /\ last.flag

====
